---- MODULE Spec2Model ----
(***************************************************************************)
(* A model of npio: the cancellation token (src/src/cancellable.rs), the   *)
(* reactive directory model (src/src/model/directory.rs), the local        *)
(* backend's file operations and copy pump (src/src/file/local.rs), the    *)
(* backend registry (src/src/backend.rs) and the device services           *)
(* (src/src/service, src/src/backend, src/src/model/devices.rs).           *)
(*                                                                         *)
(* Each subsystem has its own specification over the module's variables:   *)
(*   SpecCancel  the token, its clones and the tasks waiting on it         *)
(*   SpecDir     DirectoryModel::load, its monitor tasks and subscribers   *)
(*   Spec        the local backend's file operations and its sinks         *)
(*   SpecCopy    LocalFile::copy: the pump, the token, the in-flight write *)
(*   SpecPreCancelled  every operation called with a cancelled token       *)
(*   SpecMove    LocalFile::move_to: rename, and copy+delete across devices*)
(*   SpecTrash   LocalFile::trash: the trash directory and its names       *)
(*   SpecHandles the backend registry and get_file_for_uri                 *)
(*   SpecMonitor LocalFile::monitor: the watcher thread and the consumer   *)
(*   SpecVolumes VolumeMonitor: start, stop, load and the polling task     *)
(*   SpecMounts  volumes, mounts and MountBackend::get_mount_for_path      *)
(*   SpecDevices DevicesModel: the caches, the getters and load()          *)
(*   SpecConnect UDisks2Backend::ensure_connected under concurrent calls   *)
(*   SpecThumbnails  the thumbnail cache: validity, generation, events     *)
(*   SpecTaskLife    the task and the watcher a load() leaves behind       *)
(*   SpecMoveRace    move_to while another task creates the destination    *)
(***************************************************************************)
EXTENDS Integers, Sequences, FiniteSets, TLC

(***************************************************************************)
(* Bounds of the model.                                                    *)
(***************************************************************************)
MaxHandles == 3
MaxTokens == 2
MaxWaiters == 2
MaxCancels == 2
MaxLoads == 2
MaxSubs == 1
MaxEvents == 2
MaxSinks == 2
MaxOps == 3
MaxCounter == 2
MaxTrash == 2
MaxRegs == 3
MaxProduced == 102
MaxHw == 2
MaxPolls == 2
MaxTasks == 2
MaxCallers == 2
MaxTable == 3
MaxGetters == 2
MaxList == 2
MaxBe == 2
MaxConnectors == 3
MaxEnsure == 2
MaxTicks == 5
MaxThCalls == 3
MaxLifeLoads == 2
MaxLifeEvents == 3
MaxLifeSubs == 2

Handles == 1..MaxHandles
Waiters == 1..MaxWaiters
Loads == 1..MaxLoads
Subs == 1..MaxSubs
NoToken == 0

VARIABLES
    \* ---- Cancellable (src/src/cancellable.rs) ----
    hInner,          \* handle -> the CancellableInner its Arc points to (0: no such handle yet)
    nextInner,       \* the next CancellableInner to allocate
    cancelled,       \* inner -> CancellableInner.cancelled
    notifyCalls,     \* inner -> number of notify_waiters() calls made on CancellableInner.notify
    wpc,             \* waiter -> position inside Cancellable::cancelled()
    wtok,            \* waiter -> the handle it waits on
    wsnap,           \* waiter -> the notify_waiters() count its Notified future captured
    \* ghost state of the token
    hFamily,         \* handle -> the new() call the handle descends from
    cancelRequested, \* family -> cancel() was called on some handle of the family
    cancelCount      \* family -> number of cancel() calls made so far

VARIABLES
    \* ---- DirectoryModel (src/src/model/directory.rs) ----
    files,           \* DirectoryModel.files: the shared children list
    loadpc,          \* load call -> position inside DirectoryModel::load
    loadTok,         \* load call -> its cancellable argument
    loadSnap,        \* load call -> initial_files
    loadRes,         \* load call -> the error kind it returned ("" while none)
    loadMid,         \* ghost: load call -> number of its write to the list
    fsLog,           \* the watch events the directory has produced, oldest first
    monpc,           \* load call -> position of the monitor task it spawned
    monCur,          \* load call -> next fsLog entry its monitor will deliver
    monMsg,          \* load call -> the update its task is about to send
    monOk,           \* ghost: load call -> query_info succeeded for its task's last event
    subscribed,      \* subscriber -> it holds a broadcast::Receiver
    recvd,           \* subscriber -> the updates delivered to its receiver, in order
    subEarly,        \* ghost: subscriber -> it subscribed before any load() call
    subLate,         \* ghost: subscriber -> it subscribed after a load() returned Ok
    nmut             \* ghost: number of writes made to the list so far

VARIABLES
    \* ---- the local backend (src/src/file/local.rs) ----
    fs,              \* path -> the node the filesystem holds there
    sinks,           \* sink -> an output stream (tokio::fs::File) handed out by an open
    last,            \* the last filesystem operation: its arguments and its result
    nops,            \* number of operations called so far
    cp,              \* the copy() call: its position, locals and result
    mv,              \* the move_to() call: its position and result
    tr,              \* the trash() call: its position and result
    trash,           \* $XDG_DATA_HOME/Trash: files/ and info/
    ud,              \* UDisks2Backend: its cached connection and the last result
    \* ghost state of the filesystem
    fs0,             \* the filesystem at the start
    created,         \* path -> number of create_file calls that returned Ok
    vacated          \* path -> number of times the path was removed

VARIABLES
    \* ---- the registry and the handles (src/src/backend.rs) ----
    registry,        \* scheme -> the backend registered for it (REGISTRY.backends)
    regLog,          \* ghost: the backends given to register_backend, in order
    call             \* the last registry or handle call: its arguments and result

VARIABLES
    \* ---- the monitor channel, the streams and the device services ----
    fm,              \* a FileMonitor: its mpsc channel, the watcher thread, the consumer
    hw,              \* the devices the block service and the mount table report now
    vm,              \* a VolumeMonitor: its handle, polling tasks, maps and callers
    dv,              \* the last call on a volume, a mount or the mount backend, and its result
    be,              \* what the backends of a DevicesModel would list now, per collection
    dm,              \* a DevicesModel: its caches, its getter calls and its load() call
    uc,              \* a UDisks2Backend: its connection slot and the ensure_connected calls
    th,              \* a ThumbnailService: the clock, a source file, its thumbnails, the events
    mt               \* a DirectoryModel's owners, and the tasks and watchers its loads made

cancVars == <<hInner, nextInner, cancelled, notifyCalls, wpc, wtok, wsnap,
              hFamily, cancelRequested, cancelCount>>
loadVars == <<loadpc, loadTok, loadSnap, loadRes, loadMid>>
monVars == <<monpc, monCur, monMsg, monOk>>
subVars == <<subscribed, recvd, subEarly, subLate>>
dirVars == <<files, loadVars, fsLog, monVars, subVars, nmut>>

fsVars == <<fs, sinks, last, nops, cp, mv, tr, trash, ud, fs0, created, vacated>>

regVars == <<registry, regLog, call>>

svcVars == <<fm, hw, vm, dv, be, dm, uc, th, mt>>

nonCancVars == <<dirVars, fsVars, regVars, svcVars>>
nonDirVars == <<cancVars, fsVars, regVars, svcVars>>
nonFsVars == <<cancVars, dirVars, regVars, svcVars>>
nonRegVars == <<cancVars, dirVars, fsVars, svcVars>>
nonSvcVars == <<cancVars, dirVars, fsVars, regVars>>

vars == <<cancVars, dirVars, fsVars, regVars, svcVars>>

(***************************************************************************)
(* Cancellable                                                             *)
(***************************************************************************)
Inners == 1..MaxTokens

\* Cancellable::is_cancelled: the flag behind the handle's Arc.
IsCancelled(h) == cancelled[hInner[h]]

\* Cancellable::check: Err(Cancelled) iff the flag is set.
Check(h) == IF IsCancelled(h) THEN "Cancelled" ELSE "Ok"

\* A mutant of CheckOpt: the operation does not look at its token.
CheckOptSkipped(tok) == "Ok"

\* The check every operation makes on its optional token:
\*   if let Some(c) = cancellable { c.check()?; }
CheckOpt(tok) == IF tok = NoToken THEN "Ok" ELSE Check(tok)

\* A mutant of CancelFlag: cancel() flips the flag instead of setting it.
CancelFlagToggles(c) == ~c

\* The value cancel() leaves in the flag: `*cancelled = true` when it was false,
\* untouched when it was already true.
CancelFlag(c) == IF ~c THEN TRUE ELSE c

\* #[derive(Clone)] on Cancellable { inner: Arc<..> }: the clone shares the inner.
CloneInner(h) == hInner[h]

\* A state in which the caller holds one token, created by Cancellable::new().
CancInitWithToken ==
    /\ hInner = [h \in Handles |-> IF h = 1 THEN 1 ELSE 0]
    /\ nextInner = 2
    /\ cancelled = [i \in Inners |-> FALSE]
    /\ notifyCalls = [i \in Inners |-> 0]
    /\ wpc = [w \in Waiters |-> "idle"]
    /\ wtok = [w \in Waiters |-> NoToken]
    /\ wsnap = [w \in Waiters |-> 0]
    /\ hFamily = [h \in Handles |-> IF h = 1 THEN 1 ELSE 0]
    /\ cancelRequested = [i \in Inners |-> FALSE]
    /\ cancelCount = [i \in Inners |-> 0]

CancInit ==
    /\ hInner = [h \in Handles |-> 0]
    /\ nextInner = 1
    /\ cancelled = [i \in Inners |-> FALSE]
    /\ notifyCalls = [i \in Inners |-> 0]
    /\ wpc = [w \in Waiters |-> "idle"]
    /\ wtok = [w \in Waiters |-> NoToken]
    /\ wsnap = [w \in Waiters |-> 0]
    /\ hFamily = [h \in Handles |-> 0]
    /\ cancelRequested = [i \in Inners |-> FALSE]
    /\ cancelCount = [i \in Inners |-> 0]

\* Cancellable::new()
TokNew(h) ==
    /\ hInner[h] = 0
    /\ nextInner <= MaxTokens
    /\ hInner' = [hInner EXCEPT ![h] = nextInner]
    /\ hFamily' = [hFamily EXCEPT ![h] = nextInner]
    /\ nextInner' = nextInner + 1
    /\ UNCHANGED <<cancelled, notifyCalls, wpc, wtok, wsnap, cancelRequested, cancelCount>>

\* Cancellable::clone()
TokClone(h, h2) ==
    /\ hInner[h] # 0
    /\ hInner[h2] = 0
    /\ LET i == CloneInner(h) IN
        /\ i \in Inners
        /\ hInner' = [hInner EXCEPT ![h2] = i]
        /\ nextInner' = IF i = nextInner THEN nextInner + 1 ELSE nextInner
        /\ cancelled' = IF i = nextInner
                           THEN [cancelled EXCEPT ![i] = cancelled[hInner[h]]]
                           ELSE cancelled
    /\ hFamily' = [hFamily EXCEPT ![h2] = hFamily[h]]
    /\ UNCHANGED <<notifyCalls, wpc, wtok, wsnap, cancelRequested, cancelCount>>

\* Cancellable::cancel(): under the mutex, set the flag and notify_waiters() once.
\* (The poisoned-lock arm does the same on the recovered guard.)
TokCancel(h) ==
    /\ hInner[h] # 0
    /\ cancelCount[hFamily[h]] < MaxCancels
    /\ LET i == hInner[h] IN
        /\ cancelled' = [cancelled EXCEPT ![i] = CancelFlag(cancelled[i])]
        /\ notifyCalls' = [notifyCalls EXCEPT
                              ![i] = IF ~cancelled[i] THEN @ + 1 ELSE @]
    /\ cancelRequested' = [cancelRequested EXCEPT ![hFamily[h]] = TRUE]
    /\ cancelCount' = [cancelCount EXCEPT ![hFamily[h]] = @ + 1]
    /\ UNCHANGED <<hInner, nextInner, wpc, wtok, wsnap, hFamily>>

\* Cancellable::cancelled(), first statement: `if self.is_cancelled() { return; }`
WaitCheck(w, h) ==
    /\ wpc[w] = "idle"
    /\ hInner[h] # 0
    /\ wtok' = [wtok EXCEPT ![w] = h]
    /\ wpc' = [wpc EXCEPT ![w] = IF IsCancelled(h) THEN "done" ELSE "checked"]
    /\ UNCHANGED <<hInner, nextInner, cancelled, notifyCalls, wsnap,
                   hFamily, cancelRequested, cancelCount>>

\* Cancellable::cancelled(), `self.inner.notify.notified()`: the Notified future
\* is created, and from now on receives notify_waiters() wake-ups.
WaitRegister(w) ==
    /\ wpc[w] = "checked"
    /\ wsnap' = [wsnap EXCEPT ![w] = notifyCalls[hInner[wtok[w]]]]
    /\ wpc' = [wpc EXCEPT ![w] = "pending"]
    /\ UNCHANGED <<hInner, nextInner, cancelled, notifyCalls, wtok,
                   hFamily, cancelRequested, cancelCount>>

\* Cancellable::cancelled(), `.await`: completes once a notify_waiters() call was
\* made after the future's creation.
WaitWake(w) ==
    /\ wpc[w] = "pending"
    /\ notifyCalls[hInner[wtok[w]]] # wsnap[w]
    /\ wpc' = [wpc EXCEPT ![w] = "done"]
    /\ UNCHANGED <<hInner, nextInner, cancelled, notifyCalls, wtok, wsnap,
                   hFamily, cancelRequested, cancelCount>>

(***************************************************************************)
(* DirectoryModel                                                          *)
(***************************************************************************)
\* Names of the children the watched directory may hold.
Names == {"x", "y"}

NoInfo == [name |-> "", ver |-> 0]

\* A FileInfo, reduced to standard::name and a version of the other attributes:
\* 0 is what the enumerator fills in, 1 what a later query_info returns.
Info(n, v) == [name |-> n, ver |-> v]

\* The listings enumerate_children can produce: distinct names, in any order.
Snapshots ==
    {<<>>, <<Info("x", 0)>>, <<Info("y", 0), Info("x", 0)>>}

\* FileMonitorEvent values the watcher callback forwards (local.rs, monitor()).
EventKinds == {"Created", "Deleted", "Changed"}
Events == [kind : EventKinds, name : Names]

\* DirectoryUpdate values; mid is the ghost number of the write they report.
Update(k, l, i, m) == [kind |-> k, list |-> l, info |-> i, mid |-> m]
NoUpdate == Update("", <<>>, NoInfo, 0)

RECURSIVE PositionFrom(_, _, _)
\* files.iter().position(|f| f.get_name() == Some(&basename)), 0 for None
PositionFrom(list, n, i) ==
    IF i > Len(list) THEN 0
    ELSE IF list[i].name = n THEN i
    ELSE PositionFrom(list, n, i + 1)

Position(list, n) == PositionFrom(list, n, 1)

\* Vec::remove(pos)
RemoveAt(list, pos) ==
    [i \in 1..(Len(list) - 1) |-> IF i < pos THEN list[i] ELSE list[i + 1]]

\* A mutant of PushInfo: a created child replaces the list's last entry.
PushInfoOverLast(list, info) ==
    IF list = <<>> THEN <<info>> ELSE [list EXCEPT ![Len(list)] = info]

\* Created arm: files.push(info.clone())
PushInfo(list, info) == Append(list, info)

\* Deleted arm: files.remove(pos) when the name is found
RemoveName(list, n) ==
    IF Position(list, n) = 0 THEN list ELSE RemoveAt(list, Position(list, n))

\* Changed arm: files[pos] = info.clone() when the name is found
ReplaceName(list, info) ==
    IF Position(list, info.name) = 0 THEN list
    ELSE [list EXCEPT ![Position(list, info.name)] = info]

\* broadcast::Sender::send: every receiver that exists at the time of the send
\* is handed the update, in the order of the sends. (A receiver that lets 100
\* updates pile up unread loses the oldest; the runs modelled here send fewer.)
Broadcast(msg) ==
    recvd' = [s \in Subs |-> IF subscribed[s] THEN Append(recvd[s], msg) ELSE recvd[s]]

DirInit ==
    /\ files = <<>>
    /\ loadpc = [l \in Loads |-> "idle"]
    /\ loadTok = [l \in Loads |-> NoToken]
    /\ loadSnap = [l \in Loads |-> <<>>]
    /\ loadRes = [l \in Loads |-> ""]
    /\ loadMid = [l \in Loads |-> 0]
    /\ fsLog = <<>>
    /\ monpc = [l \in Loads |-> "off"]
    /\ monCur = [l \in Loads |-> 0]
    /\ monMsg = [l \in Loads |-> NoUpdate]
    /\ monOk = [l \in Loads |-> TRUE]
    /\ subscribed = [s \in Subs |-> FALSE]
    /\ recvd = [s \in Subs |-> <<>>]
    /\ subEarly = [s \in Subs |-> FALSE]
    /\ subLate = [s \in Subs |-> FALSE]
    /\ nmut = 0

\* DirectoryModel::subscribe
Subscribe(s) ==
    /\ ~subscribed[s]
    /\ \A t \in Subs : t < s => subscribed[t]
    /\ subscribed' = [subscribed EXCEPT ![s] = TRUE]
    /\ subEarly' = [subEarly EXCEPT ![s] = \A l \in Loads : loadpc[l] = "idle"]
    /\ subLate' = [subLate EXCEPT ![s] = \E l \in Loads : loadpc[l] = "ok"]
    /\ UNCHANGED <<files, loadVars, fsLog, monVars, recvd, nmut>>

\* DirectoryModel::load up to the end of "Update state": the token check,
\* enumerate_children and the next_file loop (each checks the token again and
\* may fail with the directory's I/O error), then *files = initial_files.clone()
\* under the write lock. The lock is released before the send.
LoadCall(l, tok) ==
    /\ loadpc[l] = "idle"
    /\ \A k \in Loads : k < l => loadpc[k] # "idle"
    /\ loadTok' = [loadTok EXCEPT ![l] = tok]
    /\ \/ /\ CheckOpt(tok) = "Cancelled"
          /\ loadpc' = [loadpc EXCEPT ![l] = "err"]
          /\ loadRes' = [loadRes EXCEPT ![l] = "Cancelled"]
          /\ UNCHANGED <<loadSnap, files, nmut, loadMid>>
       \/ /\ CheckOpt(tok) = "Ok"
          /\ loadpc' = [loadpc EXCEPT ![l] = "err"]
          /\ loadRes' = [loadRes EXCEPT ![l] = "NotFound"]
          /\ UNCHANGED <<loadSnap, files, nmut, loadMid>>
       \/ /\ CheckOpt(tok) = "Ok"
          /\ \E snap \in Snapshots :
                /\ loadSnap' = [loadSnap EXCEPT ![l] = snap]
                /\ files' = snap
          /\ nmut' = nmut + 1
          /\ loadMid' = [loadMid EXCEPT ![l] = nmut + 1]
          /\ loadpc' = [loadpc EXCEPT ![l] = "send"]
          /\ UNCHANGED loadRes
    /\ UNCHANGED <<fsLog, monVars, subVars>>

\* DirectoryModel::load from "Notify initial" to its return:
\* update_tx.send(Initial(initial_files)), then self.file.monitor(cancellable),
\* which checks the token and creates the watcher (either may fail); on success
\* the monitoring task is spawned and load returns Ok.
LoadSend(l) ==
    /\ loadpc[l] = "send"
    /\ Broadcast(Update("Initial", loadSnap[l], NoInfo, loadMid[l]))
    /\ \/ /\ CheckOpt(loadTok[l]) = "Cancelled"
          /\ loadpc' = [loadpc EXCEPT ![l] = "err"]
          /\ loadRes' = [loadRes EXCEPT ![l] = "Cancelled"]
          /\ UNCHANGED monVars
       \/ /\ CheckOpt(loadTok[l]) = "Ok"
          /\ loadpc' = [loadpc EXCEPT ![l] = "err"]
          /\ loadRes' = [loadRes EXCEPT ![l] = "Failed"]
          /\ UNCHANGED monVars
       \/ /\ CheckOpt(loadTok[l]) = "Ok"
          /\ loadpc' = [loadpc EXCEPT ![l] = "ok"]
          /\ monpc' = [monpc EXCEPT ![l] = "recv"]
          /\ monCur' = [monCur EXCEPT ![l] = Len(fsLog) + 1]
          /\ UNCHANGED <<loadRes, monMsg, monOk>>
    /\ UNCHANGED <<files, loadTok, loadSnap, loadMid, fsLog,
                   subscribed, subEarly, subLate, nmut>>

\* The watched directory changes: every live watcher will see the event.
FsEvent(ev) ==
    /\ Len(fsLog) < MaxEvents
    /\ \E l \in Loads : monpc[l] # "off"
    /\ fsLog' = Append(fsLog, ev)
    /\ UNCHANGED <<files, loadVars, monVars, subVars, nmut>>

\* A mutant of Dropped: the outcome of child.query_info is ignored.
DroppedOnlyDeleted(ev, ok, list) ==
    ev.kind = "Deleted" /\ Position(list, ev.name) = 0

\* The arms of the task's match that do nothing for an event: `if let Ok(info)`
\* fails (Created, Changed), or position() finds no entry (Deleted).
Dropped(ev, ok, list) ==
    IF ev.kind = "Deleted" THEN Position(list, ev.name) = 0 ELSE ~ok

\* The monitoring task takes its next event and handles it up to the end of
\* the block that holds the write lock. ok is whether child.query_info
\* succeeded (Created and Changed arms).
MonApply(l, ok) ==
    /\ monpc[l] = "recv"
    /\ monCur[l] <= Len(fsLog)
    /\ monCur' = [monCur EXCEPT ![l] = @ + 1]
    /\ monOk' = [monOk EXCEPT ![l] = ok]
    /\ LET ev == fsLog[monCur[l]]
           info == Info(ev.name, 1)
           pos == Position(files, ev.name)
       IN
        CASE ev.kind = "Created" /\ ~Dropped(ev, ok, files) ->
                /\ files' = PushInfo(files, info)
                /\ nmut' = nmut + 1
                /\ monMsg' = [monMsg EXCEPT ![l] = Update("Added", <<>>, info, nmut + 1)]
                /\ monpc' = [monpc EXCEPT ![l] = "send"]
          [] ev.kind = "Deleted" /\ ok /\ ~Dropped(ev, ok, files) ->
                /\ files' = RemoveName(files, ev.name)
                /\ nmut' = nmut + 1
                /\ monMsg' = [monMsg EXCEPT ![l] = Update("Removed", <<>>, files[pos], nmut + 1)]
                /\ monpc' = [monpc EXCEPT ![l] = "send"]
          [] ev.kind = "Changed" /\ ~Dropped(ev, ok, files) ->
                /\ files' = ReplaceName(files, info)
                /\ nmut' = nmut + 1
                /\ monMsg' = [monMsg EXCEPT ![l] = Update("Changed", <<>>, info, nmut + 1)]
                /\ monpc' = [monpc EXCEPT ![l] = "send"]
          [] OTHER ->
                /\ ev.kind = "Deleted" => ok
                /\ UNCHANGED <<files, nmut, monMsg, monpc>>
    /\ UNCHANGED <<loadVars, fsLog, subVars>>

\* The monitoring task, after the lock is released: tx_clone.send(update)
MonSend(l) ==
    /\ monpc[l] = "send"
    /\ Broadcast(monMsg[l])
    /\ monpc' = [monpc EXCEPT ![l] = "recv"]
    /\ monMsg' = [monMsg EXCEPT ![l] = NoUpdate]
    /\ UNCHANGED <<files, loadVars, fsLog, monCur, monOk, subscribed, subEarly, subLate, nmut>>

(***************************************************************************)
(* The local backend (src/src/file/local.rs) over a small filesystem.      *)
(*                                                                         *)
(* File contents are run-length encoded, <<[b |-> byte, n |-> count], ..>> *)
(* with adjacent runs of different bytes, so that files of several 8192    *)
(* byte chunks stay small values.                                          *)
(***************************************************************************)
\* let mut buffer = [0u8; 8192];
BufSize == 8192

Sinks == 1..MaxSinks

Run(b, n) == [b |-> b, n |-> n]
Empty == <<>>

RECURSIVE CLen(_)
\* The number of bytes of a content.
CLen(c) == IF c = <<>> THEN 0 ELSE c[1].n + CLen(Tail(c))

\* Concatenation of two contents.
CCat(x, y) ==
    IF x = <<>> THEN y
    ELSE IF y = <<>> THEN x
    ELSE IF x[Len(x)].b = y[1].b
         THEN SubSeq(x, 1, Len(x) - 1) \o <<Run(y[1].b, x[Len(x)].n + y[1].n)>> \o Tail(y)
         ELSE x \o y

RECURSIVE CTake(_, _)
\* The first k bytes of a content (all of it when it is shorter).
CTake(c, k) ==
    IF k <= 0 \/ c = <<>> THEN <<>>
    ELSE IF c[1].n <= k THEN CCat(<<c[1]>>, CTake(Tail(c), k - c[1].n))
    ELSE <<Run(c[1].b, k)>>

RECURSIVE CDrop(_, _)
\* A content without its first k bytes.
CDrop(c, k) ==
    IF k <= 0 THEN c
    ELSE IF c = <<>> THEN <<>>
    ELSE IF c[1].n <= k THEN CDrop(Tail(c), k - c[1].n)
    ELSE <<Run(c[1].b, c[1].n - k)>> \o Tail(c)

\* write(2) of d at offset pos of a file holding c: a gap past the end of the
\* file reads as zero bytes.
WriteAt(c, pos, d) ==
    LET gap == IF pos > CLen(c) THEN <<Run(0, pos - CLen(c))>> ELSE <<>>
    IN CCat(CCat(CCat(CTake(c, pos), gap), d), CDrop(c, pos + CLen(d)))

Paths == {"a", "b", "d", "d/c"}
Root == "/"

\* LocalFile::parent: the path without its last component.
Parent(p) == IF p = "d/c" THEN "d" ELSE Root

Node(k, data, target) == [kind |-> k, data |-> data, target |-> target]
Absent == Node("none", Empty, "")
FileNode(c) == Node("file", c, "")
DirNode == Node("dir", Empty, "")
LinkNode(t) == Node("link", Empty, t)

\* The filesystems an operation may find: "a" absent, a file, a symbolic link
\* to "b" (dangling when "b" is absent) or to the directory "d"; "b" absent
\* or a file; "d" absent, an empty directory or a directory holding "d/c".
InitFs ==
    LET all == { [p \in Paths |->
                    CASE p = "a" -> na [] p = "b" -> nb [] p = "d" -> nd [] OTHER -> nc] :
                    na \in {Absent, FileNode(<<Run(1, 1)>>), LinkNode("b"), LinkNode("d")},
                    nb \in {Absent, FileNode(<<Run(2, 2)>>)},
                    nd \in {Absent, DirNode},
                    nc \in {Absent, FileNode(Empty)} }
    IN {f \in all : f["d"].kind = "dir" \/ f["d/c"].kind = "none"}

EmptyFs == [p \in Paths |-> Absent]

ParentKind(f, p) == IF Parent(p) = Root THEN "dir" ELSE f[Parent(p)].kind

\* lstat(2): the io::ErrorKind of looking the path up without following a
\* final symbolic link, "Ok" when there is a node.
Lookup(f, p) ==
    IF ParentKind(f, p) = "none" THEN "NotFound"
    ELSE IF ParentKind(f, p) # "dir" THEN "NotADirectory"
    ELSE IF f[p].kind = "none" THEN "NotFound"
    ELSE "Ok"

\* The path a system call that follows symbolic links acts on. The links of
\* the modelled filesystems point at paths that never hold a link.
Resolve(f, p) == IF f[p].kind = "link" THEN f[p].target ELSE p

HasChildren(f, p) == \E c \in Paths : Parent(c) = p /\ f[c].kind # "none"

\* impl From<io::Error> for NpioError: the IOErrorEnum of an io::ErrorKind.
FromIoError(kind) ==
    CASE kind = "Ok" -> "Ok"
      [] kind = "NotFound" -> "NotFound"
      [] kind = "PermissionDenied" -> "PermissionDenied"
      [] kind = "AlreadyExists" -> "Exists"
      [] kind = "InvalidInput" -> "InvalidArg"
      [] OTHER -> "Failed"

\* A mutant of CreateNewError: the open lacks create_new(true), so an existing
\* file is opened (and the path may be reached through a symbolic link).
CreateNewErrorNotExclusive(f, p) ==
    IF ParentKind(f, p) = "none" THEN "NotFound"
    ELSE IF ParentKind(f, p) # "dir" THEN "NotADirectory"
    ELSE IF f[p].kind = "dir" THEN "IsADirectory"
    ELSE "Ok"

\* OpenOptions::new().write(true).create_new(true).open(path): O_CREAT|O_EXCL
\* fails on any existing node, a symbolic link included.
CreateNewError(f, p) ==
    IF ParentKind(f, p) = "none" THEN "NotFound"
    ELSE IF ParentKind(f, p) # "dir" THEN "NotADirectory"
    ELSE IF f[p].kind # "none" THEN "AlreadyExists"
    ELSE "Ok"

\* OpenOptions::new().write(true).create(true).truncate(true).open(path)
TruncateError(f, p) ==
    LET q == Resolve(f, p) IN
    IF ParentKind(f, q) = "none" THEN "NotFound"
    ELSE IF ParentKind(f, q) # "dir" THEN "NotADirectory"
    ELSE IF f[q].kind = "dir" THEN "IsADirectory"
    ELSE "Ok"

\* OpenOptions::new().write(true).append(true).open(path)
AppendError(f, p) ==
    LET q == Resolve(f, p) IN
    IF Lookup(f, q) # "Ok" THEN Lookup(f, q)
    ELSE IF f[q].kind = "dir" THEN "IsADirectory"
    ELSE "Ok"

\* fs::File::open(path): O_RDONLY, which also opens a directory.
OpenReadError(f, p) == Lookup(f, Resolve(f, p))

\* A mutant of DeleteTarget: delete() looks the path up with fs::metadata,
\* which follows a symbolic link, and removes what it found.
DeleteTargetFollowed(f, p) == Resolve(f, p)

\* The node delete() removes: fs::symlink_metadata, fs::remove_dir and
\* fs::remove_file all act on the path itself, never on a link's target.
DeleteTarget(f, p) == p

\* fs::symlink_metadata then fs::remove_dir or fs::remove_file
DeleteError(f, p) ==
    LET q == DeleteTarget(f, p) IN
    IF Lookup(f, q) # "Ok" THEN Lookup(f, q)
    ELSE IF f[q].kind = "dir" /\ HasChildren(f, q) THEN "DirectoryNotEmpty"
    ELSE "Ok"

\* fs::create_dir(path)
CreateDirError(f, p) ==
    IF ParentKind(f, p) = "none" THEN "NotFound"
    ELSE IF ParentKind(f, p) # "dir" THEN "NotADirectory"
    ELSE IF f[p].kind # "none" THEN "AlreadyExists"
    ELSE "Ok"

\* LocalFile::query_info: the token check, then fs::symlink_metadata; size is
\* metadata.len() (the content length of a regular file; the model keeps no
\* size for directories and links) and the type is read off the node itself.
QueryInfoOp(f, p, tok) ==
    LET res == IF CheckOpt(tok) # "Ok" THEN CheckOpt(tok) ELSE FromIoError(Lookup(f, p))
    IN [res |-> res,
        size |-> IF res = "Ok" /\ f[p].kind = "file" THEN CLen(f[p].data) ELSE 0,
        type |-> IF res # "Ok" THEN ""
                 ELSE IF f[p].kind = "dir" THEN "Directory"
                 ELSE IF f[p].kind = "link" THEN "SymbolicLink"
                 ELSE "Regular"]

\* LocalFile::read and reading the stream it returns to its end: the token
\* check, fs::File::open, then the bytes the file holds at that moment.
ReadOp(f, p, tok) ==
    LET res == IF CheckOpt(tok) # "Ok" THEN CheckOpt(tok) ELSE FromIoError(OpenReadError(f, p))
    IN [res |-> res,
        data |-> IF res = "Ok" THEN f[Resolve(f, p)].data ELSE Empty]

\* LocalFile::exists: the token check, then Path::exists, which follows
\* symbolic links and is false on any error.
ExistsOp(f, p, tok) ==
    [res |-> CheckOpt(tok),
     val |-> CheckOpt(tok) = "Ok" /\ Lookup(f, Resolve(f, p)) = "Ok"]

\* LocalFile::enumerate_children: the token check, then fs::read_dir.
EnumerateChildrenOp(f, p, tok) ==
    LET q == Resolve(f, p)
        res == IF CheckOpt(tok) # "Ok" THEN CheckOpt(tok)
               ELSE IF Lookup(f, q) # "Ok" THEN FromIoError(Lookup(f, q))
               ELSE IF f[q].kind # "dir" THEN FromIoError("NotADirectory")
               ELSE "Ok"
    IN [res |-> res,
        names |-> IF res = "Ok" THEN {c \in Paths : Parent(c) = q /\ f[c].kind # "none"} ELSE {}]

\* LocalFile::monitor: the token check, then the watcher is created and
\* watcher.watch(path) fails (mapped to Failed) when the path is not there.
MonitorOp(f, p, tok) ==
    [res |-> IF CheckOpt(tok) # "Ok" THEN CheckOpt(tok)
             ELSE IF Lookup(f, Resolve(f, p)) # "Ok" THEN "Failed"
             ELSE "Ok"]

(***************************************************************************)
(* LocalFile::trash. Paths, names and the Path= value are sequences of     *)
(* one-character strings, so that file_name, file_stem, extension and the  *)
(* percent-encoding are computed character by character.                   *)
(***************************************************************************)
\* The spelling of the modelled paths: "a" and "d/c" have the same basename,
\* with a space, a literal "%20" and an extension.
Spelling(p) ==
    CASE p = "a" -> <<"/", "a", " ", "%", "2", "0", ".", "t">>
      [] p = "b" -> <<"/", "b">>
      [] p = "d" -> <<"/", "d">>
      [] OTHER -> <<"/", "d", "/", "a", " ", "%", "2", "0", ".", "t">>

\* The last index of character c in s, 0 when there is none.
LastIndexOf(s, c) ==
    LET at == {i \in 1..Len(s) : s[i] = c}
    IN IF at = {} THEN 0 ELSE CHOOSE i \in at : \A j \in at : j <= i

\* Path::file_name of a path that ends in a normal component.
FileName(s) == SubSeq(s, LastIndexOf(s, "/") + 1, Len(s))

\* Path::file_stem: the name up to its last dot; the whole name when it has
\* no dot, or only a leading one.
FileStem(n) ==
    IF LastIndexOf(n, ".") <= 1 THEN n ELSE SubSeq(n, 1, LastIndexOf(n, ".") - 1)

\* Path::extension mapped by format!(".{}", e), empty when there is none.
DotExtension(n) ==
    IF LastIndexOf(n, ".") <= 1 THEN <<>> ELSE SubSeq(n, LastIndexOf(n, "."), Len(n))

RECURSIVE Decimal(_)
\* format!("{}", counter)
Decimal(k) ==
    LET digit(d) == <<"0", "1", "2", "3", "4", "5", "6", "7", "8", "9">>[d + 1]
    IN IF k < 10 THEN <<digit(k)>> ELSE Decimal(k \div 10) \o <<digit(k % 10)>>

\* format!("{}{}", format!("{}.{}", stem, counter), ext)
TrashCandidate(base, counter) ==
    FileStem(base) \o <<".">> \o Decimal(counter) \o DotExtension(base)

\* A mutant of PathEncodeSet: the percent sign itself is not encoded.
PathEncodeSetWithoutPercent ==
    {" ", "<", ">", "#", "?", "{", "}", "[", "]", "|", "^", "&", "*"}

\* const PATH_ENCODE_SET: its printable characters, but for the double quote,
\* the backslash and the backtick, which no modelled path holds.
PathEncodeSet ==
    {" ", "<", ">", "#", "?", "{", "}", "[", "]", "|", "^", "&", "*", "%"}

\* The two hexadecimal digits of a character of the encode set.
Hex(c) ==
    CASE c = " " -> <<"2", "0">> [] c = "<" -> <<"3", "C">>
      [] c = ">" -> <<"3", "E">> [] c = "#" -> <<"2", "3">>
      [] c = "?" -> <<"3", "F">> [] c = "{" -> <<"7", "B">> [] c = "}" -> <<"7", "D">>
      [] c = "[" -> <<"5", "B">> [] c = "]" -> <<"5", "D">> [] c = "|" -> <<"7", "C">>
      [] c = "^" -> <<"5", "E">> [] c = "&" -> <<"2", "6">>
      [] c = "*" -> <<"2", "A">> [] OTHER -> <<"2", "5">>

RECURSIVE Utf8PercentEncode(_)
\* utf8_percent_encode(component, PATH_ENCODE_SET).to_string()
Utf8PercentEncode(s) ==
    IF s = <<>> THEN <<>>
    ELSE (IF s[1] \in PathEncodeSet THEN <<"%">> \o Hex(s[1]) ELSE <<s[1]>>)
            \o Utf8PercentEncode(Tail(s))

RECURSIVE SplitSlash(_)
\* str::split('/'): the components, empty ones included.
SplitSlash(s) ==
    LET at == {i \in 1..Len(s) : s[i] = "/"}
        first == CHOOSE i \in at : \A j \in at : i <= j
    IN IF at = {} THEN <<s>>
       ELSE <<SubSeq(s, 1, first - 1)>> \o SplitSlash(SubSeq(s, first + 1, Len(s)))

RECURSIVE JoinSlash(_)
\* [String]::join("/")
JoinSlash(cs) ==
    IF cs = <<>> THEN <<>>
    ELSE IF Len(cs) = 1 THEN cs[1]
    ELSE cs[1] \o <<"/">> \o JoinSlash(Tail(cs))

\* encoded_path: the components of original_path_str encoded one by one and
\* joined behind a "/".
EncodedPath(orig) ==
    LET comps == IF orig # <<>> /\ orig[1] = "/" THEN SplitSlash(Tail(orig))
                 ELSE SplitSlash(orig)
    IN <<"/">> \o JoinSlash([i \in 1..Len(comps) |-> Utf8PercentEncode(comps[i])])

\* The names an entry of Trash/files or Trash/info may have in the model.
TrashNames ==
    {FileName(Spelling(p)) : p \in Paths}
        \cup {TrashCandidate(FileName(Spelling(p)), k) : p \in Paths, k \in 1..MaxCounter}

\* An entry of Trash/files: a node, and whether (a directory) it holds entries.
Entry(node, kids) == [node |-> node, kids |-> kids]
NoEntry == Entry(Absent, FALSE)

\* A file of Trash/info: the value of its Path= line.
InfoFile(path) == [present |-> TRUE, path |-> path]
NoInfoFile == [present |-> FALSE, path |-> <<>>]

\* $XDG_DATA_HOME/Trash: root is "none" (not there), "ready" (files/ and
\* info/ exist) or "blocked" (Trash is a regular file); mounted tells that
\* "d" is the mount point of another filesystem than the trash's.
Trash(root, mounted, entries, infos) ==
    [root |-> root, mounted |-> mounted, files |-> entries, info |-> infos]
NoTrashDir ==
    Trash("none", FALSE, [n \in TrashNames |-> NoEntry], [n \in TrashNames |-> NoInfoFile])

\* A trash that holds the entries of es (a function from names to entries),
\* each with its info file.
TrashWith(mounted, es) ==
    Trash("ready", mounted,
          [n \in TrashNames |-> IF n \in DOMAIN es THEN es[n] ELSE NoEntry],
          [n \in TrashNames |-> IF n \in DOMAIN es THEN InfoFile(<<"/", "x">>) ELSE NoInfoFile])

\* The trash directories a trash() call may find: none, an empty one, one
\* that holds a file or a directory under the name the call will try first,
\* one that holds two directories with entries, one that cannot be created.
InitTrash ==
    LET fa == FileName(Spelling("a"))
        fd == FileName(Spelling("d"))
        old == Entry(FileNode(<<Run(9, 9)>>), FALSE)
        full == Entry(DirNode, TRUE)
        hollow == Entry(DirNode, FALSE)
    IN UNION { { NoTrashDir,
                 [NoTrashDir EXCEPT !.mounted = mounted, !.root = "blocked"],
                 TrashWith(mounted, <<>>),
                 TrashWith(mounted, fa :> old),
                 TrashWith(mounted, fd :> hollow),
                 TrashWith(mounted, fd :> full),
                 TrashWith(mounted, (fd :> full) @@ (TrashCandidate(fd, 1) :> full)) }
               : mounted \in BOOLEAN }

(***************************************************************************)
(* The backend registry (src/src/backend.rs), LocalBackend and the path    *)
(* functions of LocalFile. URIs and paths are sequences of one-character   *)
(* strings.                                                                *)
(***************************************************************************)
FileScheme == <<"f", "i", "l", "e">>
SftpScheme == <<"s", "f", "t", "p">>
SchemeSep == <<":", "/", "/">>

\* The backends that get registered: two LocalBackend values and a backend
\* of another crate for the scheme "sftp".
Backends == 1..3
NoBackend == 0

\* Backend::scheme
Scheme(b) == IF b = 3 THEN SftpScheme ELSE FileScheme

\* str::starts_with
StartsWith(s, pre) == Len(s) >= Len(pre) /\ SubSeq(s, 1, Len(pre)) = pre

\* The first index at which pat occurs in s, 0 when it does not.
Find(s, pat) ==
    LET at == {i \in 1..Len(s) : StartsWith(SubSeq(s, i, Len(s)), pat)}
    IN IF at = {} THEN 0 ELSE CHOOSE i \in at : \A j \in at : i <= j

RECURSIVE TrimStartMatches(_, _)
\* str::trim_start_matches: every leading repetition of pat is removed.
TrimStartMatches(s, pat) ==
    IF StartsWith(s, pat) THEN TrimStartMatches(SubSeq(s, Len(pat) + 1, Len(s)), pat) ELSE s

\* A mutant of RegistryInsert: an entry that exists is kept.
RegistryInsertIfAbsent(reg, b) ==
    IF reg[Scheme(b)] # NoBackend THEN reg ELSE [reg EXCEPT ![Scheme(b)] = b]

\* BackendRegistry::register: self.backends.insert(backend.scheme().to_string(), backend)
RegistryInsert(reg, b) == [reg EXCEPT ![Scheme(b)] = b]

\* BackendRegistry::get_backend: self.backends.get(scheme).cloned()
GetBackend(reg, scheme) == IF scheme \in DOMAIN reg THEN reg[scheme] ELSE NoBackend

\* get_file_for_uri: parts = uri.split("://"); parts[0] when there are
\* several parts, else "file".
UriScheme(uri) ==
    IF Find(uri, SchemeSep) = 0 THEN FileScheme ELSE SubSeq(uri, 1, Find(uri, SchemeSep) - 1)

\* LocalFile::uri: format!("file://{}", self.path.to_string_lossy())
LocalUri(path) == FileScheme \o SchemeSep \o path

\* LocalBackend::get_file_for_uri: InvalidArg unless the uri starts with
\* "file://", else a LocalFile of the uri without its leading "file://"s.
LocalGetFileForUri(uri) ==
    IF ~StartsWith(uri, FileScheme \o SchemeSep)
    THEN [res |-> "InvalidArg", path |-> <<>>, uri |-> <<>>]
    ELSE [res |-> "Ok",
          path |-> TrimStartMatches(uri, FileScheme \o SchemeSep),
          uri |-> LocalUri(TrimStartMatches(uri, FileScheme \o SchemeSep))]

\* get_file_for_uri: the backend of the scheme is asked, NotSupported when
\* there is none. What the backend of another crate answers is not modelled.
GetFileForUriOp(reg, uri) ==
    IF GetBackend(reg, UriScheme(uri)) = NoBackend
    THEN [res |-> "NotSupported", path |-> <<>>, uri |-> <<>>]
    ELSE IF Scheme(GetBackend(reg, UriScheme(uri))) = FileScheme THEN LocalGetFileForUri(uri)
    ELSE [res |-> "Delegated", path |-> <<>>, uri |-> <<>>]

RECURSIVE TrimRight(_)
\* Components of std::path: trailing separators, and trailing "." components
\* that are not the first component, are not part of the path.
TrimRight(s) ==
    IF Len(s) <= 1 THEN s
    ELSE IF s[Len(s)] = "/" THEN
        IF \A i \in 1..Len(s) : s[i] = "/" THEN <<"/">>
        ELSE TrimRight(SubSeq(s, 1, Len(s) - 1))
    ELSE IF s[Len(s)] = "." /\ s[Len(s) - 1] = "/" THEN TrimRight(SubSeq(s, 1, Len(s) - 1))
    ELSE s

\* Path::parent: None for the root and the empty path, else the path
\* without its last component.
PathParent(s) ==
    LET t == TrimRight(s)
        i == LastIndexOf(t, "/")
    IN IF t = <<>> \/ t = <<"/">> THEN [some |-> FALSE, path |-> <<>>]
       ELSE IF i = 0 THEN [some |-> TRUE, path |-> <<>>]
       ELSE [some |-> TRUE, path |-> TrimRight(SubSeq(t, 1, i))]

\* PathBuf::join / push: an absolute name replaces the path, otherwise a
\* separator is added unless the path is empty or ends with one.
PathJoin(s, name) ==
    IF name # <<>> /\ name[1] = "/" THEN name
    ELSE IF s = <<>> \/ s[Len(s)] = "/" THEN s \o name
    ELSE s \o <<"/">> \o name

\* LocalFile::child(name).parent(): the path of the handle, if there is one.
ChildParentOp(path, name) == PathParent(PathJoin(path, name))

\* The URIs resolved: nothing, "file://", "file://file://", "sftp://" or
\* "h://" in front of "", "/a", "a" or "/a/b".
UriInputs ==
    { pre \o rest :
        pre \in {<<>>, FileScheme \o SchemeSep, FileScheme \o SchemeSep \o FileScheme \o SchemeSep,
                 SftpScheme \o SchemeSep, <<"h">> \o SchemeSep},
        rest \in {<<>>, <<"/", "a">>, <<"a">>, <<"/", "a", "/", "b">>} }

\* The paths of the handles child() is called on, and the names it is given.
HandlePaths ==
    {<<"/">>, <<"/", "a">>, <<"/", "a", "/", "b">>, <<"a">>, <<>>, <<"/", "a", "/">>}
ChildNames == {<<"x">>, <<"x", ".", "y">>, <<>>, <<".">>, <<".", ".">>}

\* A call and what it returned; ghost: seen is the registry it read.
Call(op, arg, name, out) ==
    [op |-> op, arg |-> arg, name |-> name, out |-> out, seen |-> registry]
NoCall ==
    [op |-> "", arg |-> <<>>, name |-> <<>>, out |-> [res |-> ""], seen |-> <<>>]

\* static REGISTRY: an empty HashMap.
RegInit ==
    /\ registry = [s \in {FileScheme, SftpScheme} |-> NoBackend]
    /\ regLog = <<>>
    /\ call = NoCall

\* register_backend: under the write lock of REGISTRY.
RegisterBackend(b) ==
    /\ Len(regLog) < MaxRegs
    /\ registry' = RegistryInsert(registry, b)
    /\ regLog' = Append(regLog, b)
    /\ UNCHANGED call

\* get_file_for_uri, the registry being read under its read lock.
GetFileForUri(uri) ==
    /\ call' = Call("get_file_for_uri", uri, <<>>, GetFileForUriOp(registry, uri))
    /\ UNCHANGED <<registry, regLog>>

\* get_backend_for_scheme
GetBackendForScheme(scheme) ==
    /\ call' = Call("get_backend_for_scheme", scheme, <<>>,
                    [res |-> "Ok", backend |-> GetBackend(registry, scheme)])
    /\ UNCHANGED <<registry, regLog>>

\* f.child(name).parent() on the LocalFile of a path.
ChildParent(path, name) ==
    /\ call' = Call("child_parent", path, name, ChildParentOp(path, name))
    /\ UNCHANGED <<registry, regLog>>

(***************************************************************************)
(* LocalFile::monitor (src/src/file/local.rs) and FileMonitor              *)
(* (src/src/monitor.rs): the watcher callback runs on notify's thread and  *)
(* forwards into a tokio mpsc channel; next_event receives from it. The    *)
(* events are the ones the callback maps to Some(..), numbered in the      *)
(* order the watch source produced them.                                   *)
(***************************************************************************)

\* mpsc::channel(100)
MonitorCapacity == 100

NoMonitor == [chan |-> <<>>, next |-> 1, pend |-> 0, got |-> <<>>]

\* The watcher callback is invoked with the next event: tx_clone.blocking_send(e)
\* enqueues it if the channel has room and otherwise parks notify's thread
\* until it has.
MonitorProduce ==
    /\ UNCHANGED <<hw, vm, dv, be, dm, uc, th, mt>>
    /\ fm.pend = 0
    /\ fm.next <= MaxProduced
    /\ IF Len(fm.chan) < MonitorCapacity
       THEN fm' = [fm EXCEPT !.chan = Append(@, fm.next), !.next = @ + 1]
       ELSE fm' = [fm EXCEPT !.pend = fm.next, !.next = @ + 1]

\* blocking_send returns: the consumer has made room and the parked event is
\* enqueued.
MonitorUnblock ==
    /\ UNCHANGED <<hw, vm, dv, be, dm, uc, th, mt>>
    /\ fm.pend # 0
    /\ Len(fm.chan) < MonitorCapacity
    /\ fm' = [fm EXCEPT !.chan = Append(@, fm.pend), !.pend = 0]

\* FileMonitor::next_event: self.receiver.recv().await
MonitorNextEvent ==
    /\ UNCHANGED <<hw, vm, dv, be, dm, uc, th, mt>>
    /\ fm.chan # <<>>
    /\ fm' = [fm EXCEPT !.chan = Tail(@), !.got = Append(@, Head(fm.chan))]

(***************************************************************************)
(* VolumeMonitor (src/src/service/volumemonitor.rs): start() spawns the    *)
(* polling task monitor_udev_events and stores its JoinHandle, stop()      *)
(* aborts the stored handle. The runtime is multi-threaded: a task runs in *)
(* parallel with the callers, and JoinHandle::abort on a task that is      *)
(* being polled takes effect when that poll reaches its next await.        *)
(***************************************************************************)
Uuids == {"u1", "u2"}
MountPaths == {"/mnt/a"}
Devices == {"/dev/sda"}
Tasks == 1..MaxTasks
Callers == 1..MaxCallers
NoTask == 0

\* What the backends report: the volumes by uuid, the mounts by path, the
\* drives by device.
World(v, mo, d) == [volumes |-> v, mounts |-> mo, drives |-> d]
NoWorld == World({}, {}, {})

\* A VolumeMonitorEvent: its variant and the key it carries.
VmEvent(k, key) == [kind |-> k, key |-> key]

NoPollTask == [pc |-> "none", snap |-> {}, aborted |-> FALSE]
NoCycle == [n |-> 0, before |-> NoWorld, world |-> NoWorld, events |-> {}]

NoVolumeMonitor ==
    [handle |-> NoTask, ntasks |-> 0, tasks |-> [t \in Tasks |-> NoPollTask],
     stored |-> NoWorld, cyc |-> NoCycle, nsent |-> 0,
     stopped |-> FALSE, sentAfterStop |-> FALSE, starts |-> 0, stops |-> 0, nhw |-> 0,
     callers |-> [c \in Callers |-> "idle"]]

\* s with x put in if it is missing and taken out if it is there
Toggle(s, x) == IF x \in s THEN s \ {x} ELSE s \cup {x}

\* A device appears or disappears: a volume, a mount or a drive.
HwChange(what, x) ==
    /\ vm.nhw < MaxHw
    /\ hw' = CASE what = "volume" -> [hw EXCEPT !.volumes = Toggle(@, x)]
              [] what = "mount" -> [hw EXCEPT !.mounts = Toggle(@, x)]
              [] what = "drive" -> [hw EXCEPT !.drives = Toggle(@, x)]
    /\ vm' = [vm EXCEPT !.nhw = @ + 1]

\* VolumeMonitor::start up to the end of "Check if already started": the read
\* guard is dropped before the task is spawned.
VmStartCheck(c) ==
    /\ vm.callers[c] = "idle"
    /\ vm.starts < MaxTasks
    /\ IF vm.handle # NoTask
       THEN vm' = [vm EXCEPT !.starts = @ + 1]
       ELSE vm' = [vm EXCEPT !.callers[c] = "spawn", !.starts = @ + 1]
    /\ UNCHANGED hw

\* start: task::spawn(monitor_udev_events(..)), then *handle_guard =
\* Some(handle) under the write lock, whatever the slot holds by now.
VmStartSpawn(c) ==
    /\ vm.callers[c] = "spawn"
    /\ vm.ntasks < MaxTasks
    /\ LET t == vm.ntasks + 1 IN
        vm' = [vm EXCEPT !.ntasks = t,
                         !.tasks[t] = [pc |-> "sleep", snap |-> {}, aborted |-> FALSE],
                         !.handle = t,
                         !.stopped = FALSE,
                         !.callers[c] = "load"]
    /\ UNCHANGED hw

\* VolumeMonitor::load, called by start: the volume and drive maps are cleared
\* and refilled when the block service is available, the mounts are inserted
\* into the mount map, which is never cleared.
VmLoad(c, avail) ==
    /\ vm.callers[c] = "load"
    /\ vm' = [vm EXCEPT
                !.stored = World(IF avail THEN hw.volumes ELSE @.volumes,
                                 @.mounts \cup hw.mounts,
                                 IF avail THEN hw.drives ELSE @.drives),
                !.callers[c] = "idle"]
    /\ UNCHANGED hw

\* VolumeMonitor::stop: handle_guard.take(), and abort() of the handle taken.
\* A task parked at an await is dropped there; a task being polled goes on to
\* its next await.
VmStop ==
    /\ vm.stops < MaxTasks
    /\ LET t == vm.handle IN
        vm' = [vm EXCEPT
                !.handle = NoTask,
                !.stops = @ + 1,
                !.stopped = TRUE,
                !.tasks = IF t = NoTask THEN @
                          ELSE [@ EXCEPT ![t] =
                                  IF @.pc = "sleep" THEN [@ EXCEPT !.pc = "dead"]
                                  ELSE [@ EXCEPT !.aborted = TRUE]]]
    /\ UNCHANGED hw

\* monitor_udev_events: the sleep is over and udisks2.get_volumes(None) has
\* answered (ok or not), the write guard of the volume map is taken.
VmPollFetch(t, ok) ==
    /\ vm.tasks[t].pc = "sleep"
    /\ vm.cyc.n < MaxPolls
    /\ IF ok
       THEN vm' = [vm EXCEPT !.tasks[t].pc = "diff", !.tasks[t].snap = hw.volumes]
       ELSE vm' = [vm EXCEPT !.cyc.n = @ + 1, !.cyc.events = {},
                             !.cyc.before = vm.stored, !.cyc.world = vm.stored]
    /\ UNCHANGED hw

\* The events one poll cycle sends for the fetched uuids, given the keys of the
\* volume map: VolumeRemoved for current_uuids.difference(&new_uuids), then
\* VolumeAdded for each fetched uuid the map does not hold.
PollEvents(current, new) ==
    {VmEvent("VolumeRemoved", u) : u \in current \ new}
        \cup {VmEvent("VolumeAdded", u) : u \in new \ current}

\* The rest of the cycle, with no await in it: the sends, and volumes_guard
\* .insert for every fetched volume (no key is ever removed from the map).
\* Back at the sleep the task ends if it was aborted meanwhile.
VmPollDiff(t) ==
    /\ vm.tasks[t].pc = "diff"
    /\ LET evs == PollEvents(vm.stored.volumes, vm.tasks[t].snap) IN
        vm' = [vm EXCEPT
                !.tasks[t] = [pc |-> IF @.aborted THEN "dead" ELSE "sleep",
                              snap |-> {}, aborted |-> @.aborted],
                !.stored.volumes = @ \cup vm.tasks[t].snap,
                !.nsent = @ + Cardinality(evs),
                !.sentAfterStop = @ \/ (vm.stopped /\ evs # {}),
                !.cyc = [n |-> vm.cyc.n + 1, before |-> vm.stored,
                         world |-> World(vm.tasks[t].snap, hw.mounts, hw.drives),
                         events |-> evs]]
    /\ UNCHANGED hw

(***************************************************************************)
(* Volumes and mounts: UDisks2Volume and UDisks2Mount                      *)
(* (src/src/backend/udisks2.rs), UnixMount and MountBackend                *)
(* (src/src/backend/mount.rs). A path is a sequence of chunks of           *)
(* characters in which every "/" is a chunk of its own: <<"/", "home",     *)
(* "2">> is /home2, of which <<"/", "home">> is a prefix as a string and   *)
(* not as a path.                                                          *)
(***************************************************************************)
Some(x) == [some |-> TRUE, val |-> x]
None == [some |-> FALSE, val |-> <<>>]

\* Path::components: the root if the path starts with a separator, then the
\* names between separators; empty names and "." are skipped.
PathComponents(p) ==
    [root |-> p # <<>> /\ p[1] = "/",
     names |-> SelectSeq(SplitSlash(p), LAMBDA c : c # <<>> /\ c # <<".">>)]

\* path.components().count()
ComponentCount(p) ==
    (IF PathComponents(p).root THEN 1 ELSE 0) + Len(PathComponents(p).names)

\* A mutant of PathStartsWith: the paths are compared as strings.
PathStartsWithAsString(p, base) == StartsWith(p, base)

\* Path::starts_with: base's components are the first components of p.
PathStartsWith(p, base) ==
    LET a == PathComponents(p)
        b == PathComponents(base)
    IN /\ a.root = b.root
       /\ Len(b.names) <= Len(a.names)
       /\ SubSeq(a.names, 1, Len(b.names)) = b.names

\* PathBuf == PathBuf: the components are equal.
PathEq(p, q) == PathComponents(p) = PathComponents(q)

\* UDisks2Volume::new, from the properties read over the bus: mount_point is
\* the first of MountPoints, can_mount is mount_point.is_none().
UDisks2VolumeNew(path, uuid, mountPoints) ==
    [path |-> path, uuid |-> uuid,
     mount_point |-> IF mountPoints = <<>> THEN None ELSE Some(mountPoints[1]),
     can_mount |-> mountPoints = <<>>]

\* UDisks2Volume::get_mount
VolumeGetMount(v) ==
    IF v.mount_point.some
    THEN Some([path |-> v.path, mount_point |-> v.mount_point, volume_path |-> v.path])
    ELSE None

\* UDisks2Mount::get_volume: `None`
MountGetVolume(mo) == None

\* A MountEntry, reduced to the fields UnixMount::new reads.
MountEntry(mp, fstype) == [mount_point |-> mp, filesystem_type |-> fstype]

\* UnixMount::new: is_system_internal
IsSystemInternal(e) ==
    \/ PathEq(e.mount_point, <<"/">>)
    \/ PathStartsWith(e.mount_point, <<"/", "sys">>)
    \/ PathStartsWith(e.mount_point, <<"/", "proc">>)
    \/ PathStartsWith(e.mount_point, <<"/", "dev">>)
    \/ e.filesystem_type \in {"tmpfs", "devtmpfs", "sysfs", "proc", "devpts"}

UnixMountNew(e) ==
    [mount_point |-> e.mount_point, filesystem_type |-> e.filesystem_type,
     is_system_internal |-> IsSystemInternal(e)]

\* UnixMount::can_unmount
CanUnmount(mo) == ~mo.is_system_internal

\* UnixMount::can_eject
CanEject(mo) ==
    \/ PathStartsWith(mo.mount_point, <<"/", "media">>)
    \/ PathStartsWith(mo.mount_point, <<"/", "mnt">>)

\* UnixMount::unmount: NotSupported for a mount that cannot be unmounted, and
\* NotSupported ("not yet implemented") for one that can.
UnmountOp(mo) == IF ~CanUnmount(mo) THEN "NotSupported" ELSE "NotSupported"

\* UnixMount::eject, alike.
EjectOp(mo) == IF ~CanEject(mo) THEN "NotSupported" ELSE "NotSupported"

\* MountBackend::get_mounts over the parsed lines of /proc/self/mountinfo: the
\* entries under /proc, /sys/kernel and /sys/fs/cgroup and the entry /dev are
\* left out.
BackendGetMounts(table) ==
    LET kept(e) ==
            /\ ~PathStartsWith(e.mount_point, <<"/", "proc">>)
            /\ ~PathStartsWith(e.mount_point, <<"/", "sys", "/", "kernel">>)
            /\ ~PathStartsWith(e.mount_point, <<"/", "sys", "/", "fs", "/", "cgroup">>)
            /\ ~PathEq(e.mount_point, <<"/", "dev">>)
        es == SelectSeq(table, kept)
    IN [i \in 1..Len(es) |-> UnixMountNew(es[i])]

\* mount.get_root().uri() with its "file://" stripped, "" if it has none.
MountPathOf(mo) ==
    LET uri == LocalUri(mo.mount_point)
    IN IF StartsWith(uri, FileScheme \o SchemeSep)
       THEN SubSeq(uri, Len(FileScheme \o SchemeSep) + 1, Len(uri))
       ELSE <<>>

RECURSIVE BestMatch(_, _, _, _, _)
\* The loop of get_mount_for_path from mount i on: best is replaced by a mount
\* that contains the path and has more components than best_match_len.
BestMatch(mounts, path, i, best, bestLen) ==
    IF i > Len(mounts) THEN best
    ELSE IF PathStartsWith(path, MountPathOf(mounts[i]))
            /\ ComponentCount(MountPathOf(mounts[i])) > bestLen
         THEN BestMatch(mounts, path, i + 1, Some(mounts[i]),
                        ComponentCount(MountPathOf(mounts[i])))
         ELSE BestMatch(mounts, path, i + 1, best, bestLen)

\* MountBackend::get_mount_for_path
GetMountForPathOp(table, path) == BestMatch(BackendGetMounts(table), path, 1, None, 0)

NoDeviceCall == [op |-> "", arg |-> <<>>, path |-> <<>>, out |-> <<>>]

\* A volume of the block service is built and asked for its mount, and the
\* mount for its volume.
VolumeLattice(path, uuid, mountPoints) ==
    /\ LET v == UDisks2VolumeNew(path, uuid, mountPoints)
           mo == VolumeGetMount(v)
       IN dv' = [op |-> "volume", arg |-> v, path |-> <<>>,
                 out |-> [mount |-> mo,
                          volume |-> IF mo.some THEN MountGetVolume(mo.val) ELSE None]]
    /\ UNCHANGED <<fm, hw, vm, be, dm, uc, th, mt>>

\* A UnixMount is built from an entry and asked what can be done with it.
UnixMountCalls(e) ==
    /\ LET mo == UnixMountNew(e)
       IN dv' = [op |-> "unix_mount", arg |-> mo, path |-> <<>>,
                 out |-> [can_unmount |-> CanUnmount(mo), can_eject |-> CanEject(mo),
                          unmount |-> UnmountOp(mo), eject |-> EjectOp(mo)]]
    /\ UNCHANGED <<fm, hw, vm, be, dm, uc, th, mt>>

\* get_mount_for_path(path) over a mount table.
GetMountForPath(table, path) ==
    /\ dv' = [op |-> "get_mount_for_path", arg |-> table, path |-> path,
              out |-> GetMountForPathOp(table, path)]
    /\ UNCHANGED <<fm, hw, vm, be, dm, uc, th, mt>>

(***************************************************************************)
(* DevicesModel (src/src/model/devices.rs): three caches, each behind its  *)
(* own RwLock. A list is a number: 0 is the empty list, 1, 2, .. are the   *)
(* non-empty lists the backends return as devices come and go. The getters *)
(* and load() are called by concurrent tasks; each await is a step.        *)
(***************************************************************************)
Kinds == {"mounts", "drives", "volumes"}
Getters == 1..MaxGetters
Lists == 0..MaxList
EmptyList == 0

NoGetter ==
    [pc |-> "idle", kind |-> "", seen |-> EmptyList, got |-> EmptyList, res |-> EmptyList,
     queried |-> FALSE, fetched |-> FALSE, stored |-> FALSE, expect |-> EmptyList]
NoDmLoad == [pc |-> "idle", kind |-> "", got |-> EmptyList, stored |-> EmptyList]

NoDevicesModel ==
    [cache |-> [k \in Kinds |-> EmptyList],
     get |-> [g \in Getters |-> NoGetter],
     load |-> NoDmLoad,
     nbe |-> 0]

\* The backend's list of a collection changes.
BackendChange(kind, list) ==
    /\ dm.nbe < MaxBe
    /\ be[kind] # list
    /\ be' = [be EXCEPT ![kind] = list]
    /\ dm' = [dm EXCEPT !.nbe = @ + 1]

\* The cache after `*guard = list` under the write lock.
CacheStore(cache, kind, list) == [cache EXCEPT ![kind] = list]

\* get_mounts / get_drives / get_volumes up to the end of the block that
\* holds the read guard: a non-empty cache is returned. ghost: expect is the
\* mount list a load() that has returned Ok stored.
DmGetRead(g, kind) ==
    /\ dm.get[g].pc = "idle"
    /\ \A h \in Getters : h < g => dm.get[h].pc # "idle"
    /\ LET seen == dm.cache[kind]
           expect == IF kind = "mounts" /\ dm.load.pc = "ok" THEN dm.load.stored
                     ELSE EmptyList
       IN dm' = [dm EXCEPT !.get[g] =
                    [NoGetter EXCEPT !.kind = kind, !.seen = seen, !.expect = expect,
                                     !.res = seen,
                                     !.pc = IF seen # EmptyList THEN "done" ELSE "fetch"]]
    /\ UNCHANGED be

\* The getter asks the backend (for drives and volumes: is_available() and
\* the get call): Err or an unavailable service gives Vec::new().
DmGetFetch(g, ok) ==
    /\ dm.get[g].pc = "fetch"
    /\ dm' = [dm EXCEPT !.get[g] =
                [@ EXCEPT !.queried = TRUE, !.fetched = ok,
                          !.got = IF ok THEN be[dm.get[g].kind] ELSE EmptyList,
                          !.pc = IF ok THEN "store" ELSE "done"]]
    /\ UNCHANGED be

\* The getter stores what it fetched under the write guard and returns it.
DmGetStore(g) ==
    /\ dm.get[g].pc = "store"
    /\ dm' = [dm EXCEPT !.cache = CacheStore(@, dm.get[g].kind, dm.get[g].got),
                        !.get[g] = [@ EXCEPT !.res = dm.get[g].got, !.stored = TRUE, !.pc = "done"]]
    /\ UNCHANGED be

\* DevicesModel::load (and refresh, which calls it): mount_backend.get_mounts()
\* with `?`, then for drives and for volumes the get call of the block
\* service, skipped when the service is unavailable or answers Err.
DmLoadFetch(ok) ==
    /\ dm.load.pc \in {"idle", "fetch"}
    /\ LET kind == IF dm.load.pc = "idle" THEN "mounts" ELSE dm.load.kind
           next == IF kind = "mounts" THEN "drives" ELSE "volumes"
       IN dm' = [dm EXCEPT !.load =
                    IF ok THEN [@ EXCEPT !.pc = "store", !.kind = kind, !.got = be[kind]]
                    ELSE IF kind = "mounts" THEN [@ EXCEPT !.pc = "err", !.kind = kind]
                    ELSE IF kind = "volumes" THEN [@ EXCEPT !.pc = "ok"]
                    ELSE [@ EXCEPT !.pc = "fetch", !.kind = next]]
    /\ UNCHANGED be

\* load: `*guard = list` for the collection just fetched; after the volumes
\* load returns Ok.
DmLoadStore ==
    /\ dm.load.pc = "store"
    /\ LET kind == dm.load.kind IN
        dm' = [dm EXCEPT
                !.cache = CacheStore(@, kind, dm.load.got),
                !.load = [@ EXCEPT !.stored = IF kind = "mounts" THEN dm.load.got ELSE @,
                                   !.kind = IF kind = "mounts" THEN "drives" ELSE "volumes",
                                   !.pc = IF kind = "volumes" THEN "ok" ELSE "fetch"]]
    /\ UNCHANGED be

(***************************************************************************)
(* UDisks2Backend::ensure_connected (src/src/backend/udisks2.rs). The      *)
(* connection slot is a Mutex<Option<Arc<Connection>>>; a connection is a  *)
(* number, 0 is None, and Connection::system() makes a new one each time   *)
(* it succeeds. The mutex is held for the first check and again for the    *)
(* store, not across the await in between.                                 *)
(***************************************************************************)
Connectors == 1..MaxConnectors
NoConnection == 0

NoEnsure == [pc |-> "idle", conn |-> NoConnection, ret |-> NoConnection, n |-> 0]

\* UDisks2Backend::new. ghost: made counts the connections opened, hist is
\* the set of connections ever written into the slot.
NoUDisks2Backend ==
    [stored |-> NoConnection, made |-> 0, hist |-> {},
     call |-> [c \in Connectors |-> NoEnsure]]

\* A mutant of the slot update: the new connection is stored whatever the
\* slot holds.
StoreConnectionAlways(stored, conn) == conn

\* The slot after the second guarded block: `if guard.is_none() { *guard =
\* Some(connection.clone()) }`, otherwise left as it is.
StoreConnection(stored, conn) == IF stored = NoConnection THEN conn ELSE stored

\* ensure_connected, first guarded block: a connection in the slot is
\* returned, otherwise the call goes on to connect.
EnsureCheck(c) ==
    /\ uc.call[c].pc \in {"idle", "ok", "err"}
    /\ uc.call[c].n < MaxEnsure
    /\ uc' = [uc EXCEPT !.call[c] =
                [pc |-> IF uc.stored # NoConnection THEN "ok" ELSE "connect",
                 conn |-> NoConnection,
                 ret |-> uc.stored,
                 n |-> uc.call[c].n + 1]]

\* Connection::system().await: a new connection, or Err(Failed) out of the
\* call through `?`.
EnsureConnect(c, ok) ==
    /\ uc.call[c].pc = "connect"
    /\ uc' = IF ok
             THEN [uc EXCEPT !.made = uc.made + 1,
                             !.call[c] = [@ EXCEPT !.pc = "store", !.conn = uc.made + 1]]
             ELSE [uc EXCEPT !.call[c] = [@ EXCEPT !.pc = "err"]]

\* ensure_connected, second guarded block: the double check, the store,
\* and the return of the slot's connection or of the new one.
EnsureStore(c) ==
    /\ uc.call[c].pc = "store"
    /\ LET slot == StoreConnection(uc.stored, uc.call[c].conn)
       IN uc' = [uc EXCEPT !.stored = slot,
                           !.hist = uc.hist \cup {slot},
                           !.call[c] = [@ EXCEPT !.pc = "ok",
                                                 !.ret = IF uc.stored = NoConnection
                                                         THEN uc.call[c].conn
                                                         ELSE uc.stored]]

(***************************************************************************)
(* Thumbnails (src/src/backend/thumbnail.rs, src/src/service/thumbnail.rs).*)
(* One source file and its thumbnail per size. A file's mtime is kept at   *)
(* the resolution of the filesystem, in ticks; the code reads every mtime  *)
(* through Duration::as_secs, which drops the part below a second. The     *)
(* thumbnailer itself is an outside program: it succeeds or fails.         *)
(***************************************************************************)
TicksPerSec == 2
ThumbnailSizes == {"normal", "large"}

\* Duration::as_secs of an mtime.
AsSecs(t) == t \div TicksPerSec

NoFile == [exists |-> FALSE, mtime |-> 0]
FileAt(t) == [exists |-> TRUE, mtime |-> t]

NoThCall ==
    [op |-> "", size |-> "", arg |-> 0, ok |-> TRUE, err |-> "", valid |-> FALSE,
     path |-> FALSE, attempt |-> FALSE, sent |-> <<>>]

\* ThumbnailService::new, with a source file written at time 0. ghost: now
\* is the clock, events is everything sent on the broadcast channel.
NoThumbnailService ==
    [now |-> 0, src |-> FileAt(0), thumb |-> [z \in ThumbnailSizes |-> NoFile],
     events |-> <<>>, last |-> NoThCall, n |-> 0]

\* ThumbnailBackend::has_valid_thumbnail: Ok(false) without the file,
\* otherwise Ok(thumbnail_mtime >= file_mtime) on whole seconds.
HasValidThumbnail(thumb, file_mtime) ==
    thumb.exists /\ AsSecs(thumb.mtime) >= file_mtime

\* ThumbnailService::get_thumbnail_path: Err from query_info when the source
\* is gone, otherwise Some(path) for a valid thumbnail and None for none.
GetThumbnailPathOp(src, thumb) ==
    IF ~src.exists THEN [ok |-> FALSE, err |-> "NotFound", path |-> FALSE]
    ELSE [ok |-> TRUE, err |-> "", path |-> HasValidThumbnail(thumb, AsSecs(src.mtime))]

\* ThumbnailService::generate_thumbnail: NotFound without the source, Failed
\* when the thumbnailer or the rename fails, and only after all of that the
\* ThumbnailReady event. made says whether the thumbnailer succeeded.
GenerateThumbnailOp(src, size, made) ==
    IF ~src.exists THEN [ok |-> FALSE, err |-> "NotFound", sent |-> <<>>]
    ELSE IF ~made THEN [ok |-> FALSE, err |-> "Failed", sent |-> <<>>]
    ELSE [ok |-> TRUE, err |-> "",
          sent |-> <<[kind |-> "ThumbnailReady", size |-> size, what |-> "path"]>>]

\* The clock of the filesystem moves on.
ThTick ==
    /\ th.now < MaxTicks
    /\ th' = [th EXCEPT !.now = th.now + 1]

\* The source file is written again, or removed.
ThTouch(keep) ==
    /\ th.n < MaxThCalls
    /\ th' = [th EXCEPT !.src = IF keep THEN FileAt(th.now) ELSE NoFile,
                        !.last = NoThCall]

ThHasValid(size, file_mtime) ==
    /\ th.n < MaxThCalls
    /\ th' = [th EXCEPT !.n = th.n + 1,
                        !.last = [NoThCall EXCEPT !.op = "has_valid_thumbnail",
                                                  !.size = size, !.arg = file_mtime,
                                                  !.valid = HasValidThumbnail(th.thumb[size],
                                                                             file_mtime)]]

ThGetPath(size) ==
    /\ th.n < MaxThCalls
    /\ LET r == GetThumbnailPathOp(th.src, th.thumb[size])
       IN th' = [th EXCEPT !.n = th.n + 1,
                           !.last = [NoThCall EXCEPT !.op = "get_thumbnail_path", !.size = size,
                                                     !.ok = r.ok, !.err = r.err,
                                                     !.path = r.path]]

ThGenerate(size, made) ==
    /\ th.n < MaxThCalls
    /\ LET r == GenerateThumbnailOp(th.src, size, made)
       IN th' = [th EXCEPT !.n = th.n + 1,
                           !.thumb[size] = IF r.ok THEN FileAt(th.now) ELSE @,
                           !.events = th.events \o r.sent,
                           !.last = [NoThCall EXCEPT !.op = "generate_thumbnail", !.size = size,
                                                     !.ok = r.ok, !.err = r.err, !.path = r.ok,
                                                     !.attempt = TRUE, !.sent = r.sent]]

\* ThumbnailService::get_or_generate_thumbnail: the path of a valid
\* thumbnail, otherwise generate_thumbnail, and ThumbnailFailed after its Err.
ThGetOrGenerate(size, made) ==
    /\ th.n < MaxThCalls
    /\ LET p == GetThumbnailPathOp(th.src, th.thumb[size])
           r == GenerateThumbnailOp(th.src, size, made)
           hit == ~p.ok \/ p.path
           sent == IF hit THEN <<>>
                   ELSE IF r.ok THEN r.sent
                   ELSE r.sent \o <<[kind |-> "ThumbnailFailed", size |-> size, what |-> r.err]>>
       IN th' = [th EXCEPT !.n = th.n + 1,
                           !.thumb[size] = IF ~hit /\ r.ok THEN FileAt(th.now) ELSE @,
                           !.events = th.events \o sent,
                           !.last = [NoThCall EXCEPT !.op = "get_or_generate_thumbnail",
                                                     !.size = size,
                                                     !.ok = IF hit THEN p.ok ELSE r.ok,
                                                     !.err = IF hit THEN p.err ELSE r.err,
                                                     !.path = IF hit THEN p.path ELSE r.ok,
                                                     !.attempt = ~hit, !.sent = sent]]

(***************************************************************************)
(* Who owns what after DirectoryModel::load (src/src/model/directory.rs,   *)
(* src/src/file/local.rs, src/src/monitor.rs). monitor() makes an mpsc     *)
(* channel; the one sender that outlives the call is moved into the        *)
(* watcher's callback; the watcher and the receiver go into the            *)
(* FileMonitor; the FileMonitor is moved into the spawned task. The task   *)
(* also holds its own clones of the file list and of the broadcast sender. *)
(***************************************************************************)
LifeTasks == 1..MaxLifeLoads

NoLifeTask == [pc |-> "none", watcher |-> FALSE, produced |-> 0, consumed |-> 0]

NoLife ==
    [model |-> TRUE, subs |-> 0, nsubs |-> 0, tasks |-> [t \in LifeTasks |-> NoLifeTask]]

\* The senders of a task's mpsc channel that are alive: tx is dropped when
\* monitor() returns, tx_clone lives in the watcher's callback.
LifeSenders(task) == IF task.watcher THEN 1 ELSE 0

\* What receiver.recv() gives: a queued event, None once the queue is empty
\* and no sender is left, and otherwise nothing yet (the task stays parked).
LifeRecv(task) ==
    IF task.consumed < task.produced THEN "Some"
    ELSE IF LifeSenders(task) = 0 THEN "None"
    ELSE "Pending"

\* DirectoryModel::load returning Ok: the task is spawned and owns the monitor.
LifeLoad(t) ==
    /\ mt.model
    /\ mt.tasks[t].pc = "none"
    /\ \A u \in LifeTasks : u < t => mt.tasks[u].pc # "none"
    /\ mt' = [mt EXCEPT !.tasks[t] = [NoLifeTask EXCEPT !.pc = "recv", !.watcher = TRUE]]

\* DirectoryModel::subscribe, and a receiver being dropped.
LifeSubscribe ==
    /\ mt.model
    /\ mt.nsubs < MaxLifeSubs
    /\ mt' = [mt EXCEPT !.subs = @ + 1, !.nsubs = @ + 1]

LifeDropSubscriber ==
    /\ mt.subs > 0
    /\ mt' = [mt EXCEPT !.subs = @ - 1]

\* The DirectoryModel is dropped: its file handle, its Arc of the list and
\* its broadcast sender go; nothing the task owns is touched.
LifeDropModel ==
    /\ mt.model
    /\ mt' = [mt EXCEPT !.model = FALSE]

\* The watcher's callback forwards an event of the watched directory.
LifeEvent(t) ==
    /\ mt.tasks[t].watcher
    /\ mt.tasks[t].produced < MaxLifeEvents
    /\ mt' = [mt EXCEPT !.tasks[t].produced = @ + 1]

\* The task's loop: `while let Some(event) = monitor.next_event().await`
\* handles the event; on None the task returns, which drops the monitor
\* and with it the watcher.
LifeNextEvent(t) ==
    /\ mt.tasks[t].pc = "recv"
    /\ LifeRecv(mt.tasks[t]) # "Pending"
    /\ mt' = IF LifeRecv(mt.tasks[t]) = "Some"
             THEN [mt EXCEPT !.tasks[t].consumed = @ + 1]
             ELSE [mt EXCEPT !.tasks[t].pc = "exited", !.tasks[t].watcher = FALSE]

\* The services, nothing called yet.
SvcInit ==
    /\ fm = NoMonitor
    /\ hw = World({"u1"}, {}, {"/dev/sda"})
    /\ vm = NoVolumeMonitor
    /\ dv = NoDeviceCall
    /\ be = [k \in Kinds |-> IF k = "mounts" THEN 1 ELSE EmptyList]
    /\ dm = NoDevicesModel
    /\ uc = NoUDisks2Backend
    /\ th = NoThumbnailService
    /\ mt = NoLife

(***************************************************************************)
(* Sinks: the Box<dyn OutputStream> an open hands out is a tokio::fs::File.*)
(* Its poll_write copies the bytes into the file's buffer, starts the      *)
(* write(2) on the blocking pool and returns Ready at once; the write      *)
(* lands later, whether or not the File is still alive. Only a flush waits *)
(* for it, and OutputStream::close and ::flush of fs::File are `Ok(())`.   *)
(***************************************************************************)
Sink(st, path, how, app, pos, pending, written, clean, late) ==
    [st |-> st, path |-> path, how |-> how, app |-> app, pos |-> pos,
     pending |-> pending, written |-> written, clean |-> clean, late |-> late]
NoSink == Sink("free", "", "", FALSE, 0, Empty, Empty, TRUE, FALSE)

\* The stream a successful open returns: positioned at 0, nothing in flight.
OpenedSink(path, how, app) == Sink("open", path, how, app, 0, Empty, Empty, TRUE, FALSE)

HasFreeSink == \E k \in Sinks : sinks[k].st = "free"
FreeSink == CHOOSE k \in Sinks : sinks[k].st = "free" /\ \A j \in Sinks : j < k => sinks[j].st # "free"

\* ghost: the streams open on the file at q see it changed behind their back.
Disturbed(ss, q) ==
    [k \in Sinks |-> IF ss[k].st # "free" /\ ss[k].path = q
                     THEN [ss[k] EXCEPT !.clean = FALSE] ELSE ss[k]]

\* The streams open on the file at q keep their inode when the path is
\* unlinked: what they write no longer shows under any path.
Unlinked(ss, q) ==
    [k \in Sinks |-> IF ss[k].st # "free" /\ ss[k].path = q
                     THEN [ss[k] EXCEPT !.clean = FALSE, !.path = ""] ELSE ss[k]]

Last(op, p, tok, res, pre) == [op |-> op, path |-> p, tok |-> tok, res |-> res, pre |-> pre]
NoLast == Last("", "", NoToken, "", Absent)

NoCopy ==
    [pc |-> "idle", src |-> "", dst |-> "", over |-> FALSE, tok |-> NoToken,
     inp |-> "", ipos |-> 0, out |-> 0, buf |-> Empty, written |-> 0, total |-> 0,
     res |-> "", src0 |-> Empty, progress |-> <<>>,
     cancelPc |-> "", checksAfter |-> 0, readsAfter |-> 0, writesAfter |-> 0, bytesAfter |-> 0]
NoMove ==
    [pc |-> "idle", src |-> "", dst |-> "", over |-> FALSE, nofb |-> FALSE,
     mounted |-> FALSE, tok |-> NoToken, res |-> "", err |-> ""]
NoTrash ==
    [pc |-> "idle", path |-> "", tok |-> NoToken, res |-> "", calls |-> 0, orig |-> <<>>,
     base |-> <<>>, name |-> <<>>, counter |-> 1, at |-> <<>>, before |-> <<>>]
NoUd == [conn |-> FALSE, op |-> "", res |-> ""]

\* The state of the backend over one of the filesystems of F and one of the
\* trash directories of T, nothing called yet.
FsInitTrash(F, T) ==
    /\ RegInit
    /\ SvcInit
    /\ fs \in F
    /\ trash \in T
    /\ fs0 = fs
    /\ sinks = [k \in Sinks |-> NoSink]
    /\ last = NoLast
    /\ nops = 0
    /\ cp = NoCopy
    /\ mv = NoMove
    /\ tr = NoTrash
    /\ ud = NoUd
    /\ created = [p \in Paths |-> 0]
    /\ vacated = [p \in Paths |-> 0]

\* The same, no trash directory being there yet.
FsInit(F) == FsInitTrash(F, {NoTrashDir})

\* An operation returns res: the caller's record of the call.
Returns(op, p, tok, res) ==
    /\ last' = Last(op, p, tok, res, fs[p])
    /\ nops' = nops + 1

\* LocalFile::create_file
CreateFile(p, tok) ==
    /\ nops < MaxOps
    /\ LET err == CreateNewError(fs, p) IN
        IF CheckOpt(tok) # "Ok" THEN
            /\ Returns("create_file", p, tok, CheckOpt(tok))
            /\ UNCHANGED <<fs, sinks, created>>
        ELSE IF err # "Ok" THEN
            /\ Returns("create_file", p, tok, FromIoError(err))
            /\ UNCHANGED <<fs, sinks, created>>
        ELSE
            /\ HasFreeSink
            /\ fs' = [fs EXCEPT ![p] = FileNode(Empty)]
            /\ sinks' = [Disturbed(sinks, p) EXCEPT ![FreeSink] = OpenedSink(p, "create_file", FALSE)]
            /\ created' = [created EXCEPT ![p] = @ + 1]
            /\ Returns("create_file", p, tok, "Ok")
    /\ UNCHANGED <<cp, mv, tr, trash, ud, fs0, vacated>>

\* LocalFile::replace
Replace(p, tok) ==
    /\ nops < MaxOps
    /\ LET err == TruncateError(fs, p)
           q == Resolve(fs, p)
       IN
        IF CheckOpt(tok) # "Ok" THEN
            /\ Returns("replace", p, tok, CheckOpt(tok))
            /\ UNCHANGED <<fs, sinks>>
        ELSE IF err # "Ok" THEN
            /\ Returns("replace", p, tok, FromIoError(err))
            /\ UNCHANGED <<fs, sinks>>
        ELSE
            /\ HasFreeSink
            /\ fs' = [fs EXCEPT ![q] = FileNode(Empty)]
            /\ sinks' = [Disturbed(sinks, q) EXCEPT ![FreeSink] = OpenedSink(q, "replace", FALSE)]
            /\ Returns("replace", p, tok, "Ok")
    /\ UNCHANGED <<cp, mv, tr, trash, ud, fs0, created, vacated>>

\* LocalFile::append_to
AppendTo(p, tok) ==
    /\ nops < MaxOps
    /\ LET err == AppendError(fs, p)
           q == Resolve(fs, p)
       IN
        IF CheckOpt(tok) # "Ok" THEN
            /\ Returns("append_to", p, tok, CheckOpt(tok))
            /\ UNCHANGED sinks
        ELSE IF err # "Ok" THEN
            /\ Returns("append_to", p, tok, FromIoError(err))
            /\ UNCHANGED sinks
        ELSE
            /\ HasFreeSink
            /\ sinks' = [sinks EXCEPT ![FreeSink] = OpenedSink(q, "append_to", TRUE)]
            /\ Returns("append_to", p, tok, "Ok")
    /\ UNCHANGED <<fs, cp, mv, tr, trash, ud, fs0, created, vacated>>

\* LocalFile::delete
Delete(p, tok) ==
    /\ nops < MaxOps
    /\ LET err == DeleteError(fs, p)
           q == DeleteTarget(fs, p)
       IN
        IF CheckOpt(tok) # "Ok" THEN
            /\ Returns("delete", p, tok, CheckOpt(tok))
            /\ UNCHANGED <<fs, sinks, vacated>>
        ELSE IF err # "Ok" THEN
            /\ Returns("delete", p, tok, FromIoError(err))
            /\ UNCHANGED <<fs, sinks, vacated>>
        ELSE
            /\ fs' = [fs EXCEPT ![q] = Absent]
            /\ sinks' = Unlinked(sinks, q)
            /\ vacated' = [vacated EXCEPT ![q] = @ + 1]
            /\ Returns("delete", p, tok, "Ok")
    /\ UNCHANGED <<cp, mv, tr, trash, ud, fs0, created>>

\* LocalFile::make_directory
MakeDirectory(p, tok) ==
    /\ nops < MaxOps
    /\ LET err == CreateDirError(fs, p) IN
        IF CheckOpt(tok) # "Ok" THEN
            /\ Returns("make_directory", p, tok, CheckOpt(tok))
            /\ UNCHANGED fs
        ELSE IF err # "Ok" THEN
            /\ Returns("make_directory", p, tok, FromIoError(err))
            /\ UNCHANGED fs
        ELSE
            /\ fs' = [fs EXCEPT ![p] = DirNode]
            /\ Returns("make_directory", p, tok, "Ok")
    /\ UNCHANGED <<sinks, cp, mv, tr, trash, ud, fs0, created, vacated>>

QueryOps == {"read", "query_info", "exists", "enumerate_children", "monitor"}

\* The result kind of the operations that only look at the filesystem.
QueryResult(op, f, p, tok) ==
    CASE op = "read" -> ReadOp(f, p, tok).res
      [] op = "query_info" -> QueryInfoOp(f, p, tok).res
      [] op = "exists" -> ExistsOp(f, p, tok).res
      [] op = "enumerate_children" -> EnumerateChildrenOp(f, p, tok).res
      [] OTHER -> MonitorOp(f, p, tok).res

\* LocalFile::read, query_info, exists, enumerate_children and monitor: they
\* return a value or a handle and leave the filesystem as it is.
Query(op, p, tok) ==
    /\ nops < MaxOps
    /\ Returns(op, p, tok, QueryResult(op, fs, p, tok))
    /\ UNCHANGED <<fs, sinks, cp, mv, tr, trash, ud, fs0, created, vacated>>

\* The bytes a caller hands to write_all in one call.
WriteData == {<<Run(1, 1)>>, <<Run(2, 2)>>}

\* AsyncWriteExt::write_all on a sink: tokio's poll_write waits for the write
\* in flight, if any, then takes the bytes and returns. close() having been
\* called does not stop it: close() changes nothing in the File.
SinkWrite(k, d) ==
    /\ nops < MaxOps
    /\ sinks[k].st \in {"open", "closed"}
    /\ sinks[k].pending = Empty
    /\ sinks' = [sinks EXCEPT ![k].pending = d,
                              ![k].written = CCat(@, d),
                              ![k].late = @ \/ sinks[k].st = "closed"]
    /\ last' = Last("write", sinks[k].path, NoToken, "Ok", Absent)
    /\ nops' = nops + 1
    /\ UNCHANGED <<fs, cp, mv, tr, trash, ud, fs0, created, vacated>>

\* The blocking-pool task of a write in flight runs: write(2) at the file's
\* position (at its end for an append stream) on the inode the stream holds.
SinkWriteDone(k) ==
    /\ sinks[k].st # "free"
    /\ sinks[k].pending # Empty
    /\ LET s == sinks[k]
           q == s.path
           at == IF s.app /\ q # "" THEN CLen(fs[q].data) ELSE s.pos
           done == [Disturbed(sinks, q) EXCEPT ![k] =
                        [s EXCEPT !.pending = Empty, !.pos = at + CLen(s.pending)]]
       IN
        /\ fs' = IF q = "" THEN fs
                 ELSE [fs EXCEPT ![q].data = WriteAt(@, at, s.pending)]
        /\ sinks' = IF q = "" THEN [sinks EXCEPT ![k] = done[k]] ELSE done
    /\ last' = Last("write_done", sinks[k].path, NoToken, "Ok", Absent)
    /\ UNCHANGED <<nops, cp, mv, tr, trash, ud, fs0, created, vacated>>

\* OutputStream::close of fs::File: `Ok(())`, it neither flushes nor waits.
SinkClose(k) ==
    /\ nops < MaxOps
    /\ sinks[k].st = "open"
    /\ sinks' = [sinks EXCEPT ![k].st = "closed"]
    /\ last' = Last("close", sinks[k].path, NoToken, "Ok", Absent)
    /\ nops' = nops + 1
    /\ UNCHANGED <<fs, cp, mv, tr, trash, ud, fs0, created, vacated>>

(***************************************************************************)
(* LocalFile::copy. Its suspension points are the steps below; the token   *)
(* may be cancelled, and a write in flight may land, between any two.      *)
(***************************************************************************)
\* ghost: one more token check, read or write made after cancel() was called.
AfterCancel(c, field, by) ==
    IF c.tok # NoToken /\ IsCancelled(c.tok) /\ c.cancelPc # ""
    THEN [c EXCEPT ![field] = @ + by] ELSE c

\* The sink of the copy goes out of scope with the call.
DropOut(ss, k) == IF k = 0 THEN ss ELSE [ss EXCEPT ![k].st = "dropped"]

\* copy(): the token check, then self.read(cancellable): its own check and
\* fs::File::open of the source.
CopyStart(src, dst, over, tok) ==
    /\ cp.pc = "idle"
    /\ LET c == [cp EXCEPT !.src = src, !.dst = dst, !.over = over, !.tok = tok]
           err == OpenReadError(fs, src)
       IN
        cp' = IF CheckOpt(tok) # "Ok" THEN [c EXCEPT !.pc = "done", !.res = CheckOpt(tok)]
              ELSE IF err # "Ok" THEN [c EXCEPT !.pc = "done", !.res = FromIoError(err)]
              ELSE [c EXCEPT !.pc = "open_dst", !.inp = Resolve(fs, src),
                             !.src0 = fs[Resolve(fs, src)].data]
    /\ UNCHANGED <<fs, sinks, last, nops, mv, tr, trash, ud, fs0, created, vacated>>

\* A mutant of CopyDstError: copy() opens the destination with replace()
\* whatever the flags.
CopyDstErrorAlwaysReplace(f, dst, over) == TruncateError(f, dst)

\* if flags.contains(OVERWRITE) { destination.replace(..) } else
\* { destination.create_file(..) }: the error of the open that is made.
CopyDstError(f, dst, over) ==
    IF over THEN TruncateError(f, dst) ELSE CreateNewError(f, dst)

\* destination.replace(..) with OVERWRITE, destination.create_file(..) without:
\* each checks the token, then opens.
CopyOpenDst ==
    /\ cp.pc = "open_dst"
    /\ LET c == AfterCancel(cp, "checksAfter", 1)
           err == CopyDstError(fs, cp.dst, cp.over)
           q == IF cp.over THEN Resolve(fs, cp.dst) ELSE cp.dst
       IN
        IF CheckOpt(cp.tok) # "Ok" THEN
            /\ cp' = [c EXCEPT !.pc = "done", !.res = CheckOpt(cp.tok)]
            /\ UNCHANGED <<fs, sinks, created>>
        ELSE IF err # "Ok" THEN
            /\ cp' = [c EXCEPT !.pc = "done", !.res = FromIoError(err)]
            /\ UNCHANGED <<fs, sinks, created>>
        ELSE
            /\ HasFreeSink
            /\ fs' = [fs EXCEPT ![q] = FileNode(Empty)]
            /\ sinks' = [Disturbed(sinks, q) EXCEPT
                            ![FreeSink] = OpenedSink(q, IF cp.over THEN "replace" ELSE "create_file", FALSE)]
            /\ created' = IF cp.over THEN created ELSE [created EXCEPT ![q] = @ + 1]
            /\ cp' = [c EXCEPT !.pc = "query", !.out = FreeSink]
    /\ UNCHANGED <<last, nops, mv, tr, trash, ud, fs0, vacated>>

\* total_size = self.query_info("standard::size", cancellable).ok()...unwrap_or(0)
CopyQuery ==
    /\ cp.pc = "query"
    /\ LET info == QueryInfoOp(fs, cp.src, cp.tok) IN
        cp' = [AfterCancel(cp, "checksAfter", 1) EXCEPT
                    !.pc = "check",
                    !.total = IF info.res = "Ok" THEN info.size ELSE 0]
    /\ UNCHANGED <<fs, sinks, last, nops, mv, tr, trash, ud, fs0, created, vacated>>

\* A mutant of CopyLoopCheck: the pump never looks at the token.
CopyLoopCheckMissing(tok) == "Ok"

\* The head of the pump loop: if c.is_cancelled() { return Err(Cancelled) }
CopyLoopCheck(tok) == IF tok # NoToken /\ IsCancelled(tok) THEN "Cancelled" ELSE "Ok"

CopyCheck ==
    /\ cp.pc = "check"
    /\ LET c == AfterCancel(cp, "checksAfter", 1) IN
        IF CopyLoopCheck(cp.tok) # "Ok" THEN
            /\ cp' = [c EXCEPT !.pc = "done", !.res = CopyLoopCheck(cp.tok)]
            /\ sinks' = DropOut(sinks, cp.out)
        ELSE
            /\ cp' = [c EXCEPT !.pc = "read"]
            /\ UNCHANGED sinks
    /\ UNCHANGED <<fs, last, nops, mv, tr, trash, ud, fs0, created, vacated>>

\* What read() may return with `left` bytes before the end of the file: a
\* full buffer (or all that is left), or a short read.
ReadCounts(left) ==
    IF left <= 0 THEN {0}
    ELSE {IF left < BufSize THEN left ELSE BufSize,
          IF left < BufSize \div 2 THEN left ELSE BufSize \div 2}

\* input.read(&mut buffer): an error is mapped to Failed; 0 ends the loop,
\* and output.close / input.close (both `Ok(())`) and Ok(()) follow.
CopyRead ==
    /\ cp.pc = "read"
    /\ LET c == AfterCancel(cp, "readsAfter", 1)
           data == fs[cp.inp].data
       IN
        IF fs[cp.inp].kind # "file" THEN
            /\ cp' = [c EXCEPT !.pc = "done", !.res = "Failed"]
            /\ sinks' = DropOut(sinks, cp.out)
        ELSE
            \E n \in ReadCounts(CLen(data) - cp.ipos) :
                IF n = 0 THEN
                    /\ cp' = [c EXCEPT !.pc = "done", !.res = "Ok"]
                    /\ sinks' = DropOut(sinks, cp.out)
                ELSE
                    /\ cp' = [c EXCEPT !.pc = "write",
                                       !.buf = CTake(CDrop(data, cp.ipos), n),
                                       !.ipos = @ + n]
                    /\ UNCHANGED sinks
    /\ UNCHANGED <<fs, last, nops, mv, tr, trash, ud, fs0, created, vacated>>

\* output.write_all(&buffer[..n]) (waits for the sink's write in flight, then
\* hands the chunk over), total_written += n, cb(total_written, total_size):
\* progress is the list of the (current, total) pairs the callback was given.
CopyWrite ==
    /\ cp.pc = "write"
    /\ sinks[cp.out].pending = Empty
    /\ sinks' = [sinks EXCEPT ![cp.out].pending = cp.buf,
                              ![cp.out].written = CCat(@, cp.buf)]
    /\ cp' = [AfterCancel(AfterCancel(cp, "writesAfter", 1), "bytesAfter", CLen(cp.buf)) EXCEPT
                    !.pc = "check",
                    !.written = @ + CLen(cp.buf),
                    !.progress = Append(@, <<cp.written + CLen(cp.buf), cp.total>>),
                    !.buf = Empty]
    /\ UNCHANGED <<fs, last, nops, mv, tr, trash, ud, fs0, created, vacated>>

\* Cancellable::cancel on the token of the copy; ghost: where the copy stood.
CopyCancelled(h) ==
    /\ cp.cancelPc = ""
    /\ TokCancel(h)
    /\ cp' = [cp EXCEPT !.cancelPc = cp.pc]
    /\ UNCHANGED <<fs, sinks, last, nops, mv, tr, trash, ud, fs0, created, vacated>>

(***************************************************************************)
(* The entry of the other operations that take a token.                    *)
(***************************************************************************)
\* The device the directory entry of a path lives on: with `mounted`, "d" is
\* the mount point of another filesystem, which holds "d/c".
Device(p, mounted) == IF mounted /\ Parent(p) = "d" THEN 2 ELSE 1

\* rename(2): the io::ErrorKind of tokio::fs::rename(src, dst), "Ok" when the
\* entry is moved. Renaming a path onto itself succeeds and does nothing.
RenameError(f, src, dst, mounted) ==
    IF Lookup(f, src) # "Ok" THEN Lookup(f, src)
    ELSE IF ParentKind(f, dst) = "none" THEN "NotFound"
    ELSE IF ParentKind(f, dst) # "dir" THEN "NotADirectory"
    ELSE IF Device(src, mounted) # Device(dst, mounted) THEN "CrossesDevices"
    ELSE IF src = dst THEN "Ok"
    ELSE IF mounted /\ "d" \in {src, dst} THEN "ResourceBusy"
    ELSE IF f[src].kind = "dir" THEN
        IF Parent(dst) = src THEN "InvalidInput"
        ELSE IF f[dst].kind = "none" THEN "Ok"
        ELSE IF f[dst].kind # "dir" THEN "NotADirectory"
        ELSE IF HasChildren(f, dst) THEN "DirectoryNotEmpty"
        ELSE "Ok"
    ELSE IF f[dst].kind = "dir" THEN "IsADirectory"
    ELSE "Ok"

\* The filesystem after a successful rename: the node is now at dst, whatever
\* was there is gone. (The modelled moves of a directory are of an empty one.)
RenameFs(f, src, dst) ==
    IF src = dst THEN f ELSE [f EXCEPT ![dst] = f[src], ![src] = Absent]

\* The streams open on the renamed file follow it; those open on the file it
\* replaced keep an inode without a path.
Renamed(ss, src, dst) ==
    IF src = dst THEN ss
    ELSE [k \in Sinks |->
            IF ss[k].st = "free" THEN ss[k]
            ELSE IF ss[k].path = src THEN [ss[k] EXCEPT !.path = dst]
            ELSE IF ss[k].path = dst THEN [ss[k] EXCEPT !.clean = FALSE, !.path = ""]
            ELSE ss[k]]

\* LocalFile::move_to up to the rename: the token check, then (the uri() of
\* every File of this repository starts with "file://", so the copy + delete
\* branch is never taken) the destination test
\* `dest_path.exists() && !flags.contains(OVERWRITE)`. NO_FALLBACK_FOR_MOVE,
\* nofb, is not looked at.
MoveStart(src, dst, over, nofb, mounted, tok) ==
    /\ mv.pc = "idle"
    /\ LET m == [mv EXCEPT !.src = src, !.dst = dst, !.over = over, !.nofb = nofb,
                           !.mounted = mounted, !.tok = tok] IN
        mv' = IF CheckOpt(tok) # "Ok" THEN [m EXCEPT !.pc = "done", !.res = CheckOpt(tok)]
              ELSE IF ExistsOp(fs, dst, NoToken).val /\ ~over
                   THEN [m EXCEPT !.pc = "done", !.res = "Exists"]
              ELSE [m EXCEPT !.pc = "rename"]
    /\ UNCHANGED <<fs, sinks, last, nops, cp, tr, trash, ud, fs0, created, vacated>>

\* tokio::fs::rename(&self.path, dest_path).await.map_err(.. Failed ..)?; Ok(())
MoveRename ==
    /\ mv.pc = "rename"
    /\ LET err == RenameError(fs, mv.src, mv.dst, mv.mounted) IN
        IF err # "Ok" THEN
            /\ mv' = [mv EXCEPT !.pc = "done", !.res = "Failed", !.err = err]
            /\ UNCHANGED <<fs, sinks>>
        ELSE
            /\ mv' = [mv EXCEPT !.pc = "done", !.res = "Ok", !.err = err]
            /\ fs' = RenameFs(fs, mv.src, mv.dst)
            /\ sinks' = Renamed(sinks, mv.src, mv.dst)
    /\ UNCHANGED <<last, nops, cp, tr, trash, ud, fs0, created, vacated>>

(***************************************************************************)
(* LocalFile::trash: its steps.                                             *)
(***************************************************************************)
\* LocalFile::trash: the token check comes first.
TrashStart(p, tok) ==
    /\ tr.pc \in {"idle", "done"}
    /\ tr.calls < MaxTrash
    /\ LET t == [NoTrash EXCEPT !.path = p, !.tok = tok, !.calls = tr.calls + 1] IN
        tr' = IF CheckOpt(tok) # "Ok" THEN [t EXCEPT !.pc = "done", !.res = CheckOpt(tok)]
              ELSE [t EXCEPT !.pc = "dirs"]
    /\ UNCHANGED <<fs, sinks, last, nops, cp, mv, trash, ud, fs0, created, vacated>>

\* fs::create_dir_all of Trash/files and Trash/info, then (no suspension
\* point between them) self.path.canonicalize(), which follows a symbolic
\* link and fails on a dangling one, and self.basename().
TrashDirs ==
    /\ tr.pc = "dirs"
    /\ IF trash.root = "blocked" THEN
            /\ tr' = [tr EXCEPT !.pc = "done", !.res = FromIoError("NotADirectory")]
            /\ UNCHANGED trash
       ELSE
            /\ trash' = [trash EXCEPT !.root = "ready"]
            /\ tr' = [tr EXCEPT
                        !.pc = "rename",
                        !.orig = IF Lookup(fs, Resolve(fs, tr.path)) = "Ok"
                                 THEN Spelling(Resolve(fs, tr.path))
                                 ELSE Spelling(tr.path),
                        !.base = FileName(Spelling(tr.path)),
                        !.name = FileName(Spelling(tr.path)),
                        !.counter = 1,
                        !.at = fs,
                        !.before = trash.files]
    /\ UNCHANGED <<fs, sinks, last, nops, cp, mv, ud, fs0, created, vacated>>

\* rename(2) of the path into Trash/files: the io::ErrorKinds it may fail
\* with, {"Ok"} when it moves the entry. An existing file, link or empty
\* directory at the new name is replaced. A directory that holds entries is
\* refused with ENOTEMPTY or with EEXIST, as the filesystem chooses.
TrashRenameErrors(f, t, u, name) ==
    LET dst == t.files[name] IN
    IF Lookup(f, u) # "Ok" THEN {Lookup(f, u)}
    ELSE IF Device(u, t.mounted) # 1 THEN {"CrossesDevices"}
    ELSE IF t.mounted /\ u = "d" THEN {"ResourceBusy"}
    ELSE IF f[u].kind = "dir" THEN
        IF dst.node.kind = "none" THEN {"Ok"}
        ELSE IF dst.node.kind # "dir" THEN {"NotADirectory"}
        ELSE IF dst.kids THEN {"DirectoryNotEmpty", "AlreadyExists"}
        ELSE {"Ok"}
    ELSE IF dst.node.kind = "dir" THEN {"IsADirectory"}
    ELSE {"Ok"}

\* One turn of the loop around tokio::fs::rename(&self.path, &trash_file_path):
\* Ok leaves the loop, AlreadyExists tries the next name, any other error is
\* returned. On Ok, trashinfo_name is the file name of trash_file_path.
TrashRename ==
    /\ tr.pc = "rename"
    /\ \E e \in TrashRenameErrors(fs, trash, tr.path, tr.name) :
        IF e = "Ok" THEN
            /\ trash' = [trash EXCEPT
                            !.files[tr.name] = Entry(fs[tr.path], HasChildren(fs, tr.path))]
            /\ fs' = [p \in Paths |-> IF p = tr.path \/ Parent(p) = tr.path
                                      THEN Absent ELSE fs[p]]
            /\ sinks' = Unlinked(sinks, tr.path)
            /\ tr' = [tr EXCEPT !.pc = "info"]
        ELSE IF e = "AlreadyExists" THEN
            /\ tr.counter <= MaxCounter
            /\ tr' = [tr EXCEPT !.name = TrashCandidate(tr.base, tr.counter),
                                !.counter = @ + 1]
            /\ UNCHANGED <<fs, sinks, trash>>
        ELSE
            /\ tr' = [tr EXCEPT !.pc = "done", !.res = FromIoError(e)]
            /\ UNCHANGED <<fs, sinks, trash>>
    /\ UNCHANGED <<last, nops, cp, mv, ud, fs0, created, vacated>>

\* fs::write(&trashinfo_path, trashinfo_content).await?: the file is created
\* or overwritten, then Ok(()); or the write fails (no space, no permission)
\* and its error is returned through `?`.
TrashWriteInfo(ok) ==
    /\ tr.pc = "info"
    /\ IF ok
       THEN /\ trash' = [trash EXCEPT !.info[tr.name] = InfoFile(EncodedPath(tr.orig))]
            /\ tr' = [tr EXCEPT !.pc = "done", !.res = "Ok"]
       ELSE /\ tr' = [tr EXCEPT !.pc = "done", !.res = FromIoError("StorageFull")]
            /\ UNCHANGED trash
    /\ UNCHANGED <<fs, sinks, last, nops, cp, mv, ud, fs0, created, vacated>>

UdOps == {"get_drives", "get_volumes"}

\* UDisks2Backend::get_drives / get_volumes: the token check, then
\* ensure_connected (which caches the connection, or fails), then the
\* GetManagedObjects call (which may fail).
UdGet(op, tok, connects, answers) ==
    /\ ud' = IF CheckOpt(tok) # "Ok" THEN [ud EXCEPT !.op = op, !.res = CheckOpt(tok)]
             ELSE IF ~ud.conn /\ ~connects THEN [ud EXCEPT !.op = op, !.res = "Failed"]
             ELSE [conn |-> TRUE, op |-> op, res |-> IF answers THEN "Ok" ELSE "Failed"]
    /\ UNCHANGED <<fs, sinks, last, nops, cp, mv, tr, trash, fs0, created, vacated>>

(***************************************************************************)
(* SpecCancel: tokens are created, cloned, cancelled and waited on.        *)
(***************************************************************************)
CancelNew == \E h \in Handles : TokNew(h) /\ UNCHANGED nonCancVars
CancelClone == \E h, h2 \in Handles : TokClone(h, h2) /\ UNCHANGED nonCancVars
CancelCancel == \E h \in Handles : TokCancel(h) /\ UNCHANGED nonCancVars
CancelWaitCheck == \E w \in Waiters, h \in Handles : WaitCheck(w, h) /\ UNCHANGED nonCancVars
CancelWaitRegister == \E w \in Waiters : WaitRegister(w) /\ UNCHANGED nonCancVars
CancelWaitWake == \E w \in Waiters : WaitWake(w) /\ UNCHANGED nonCancVars

NextCancel ==
    \/ CancelNew
    \/ CancelClone
    \/ CancelCancel
    \/ CancelWaitCheck
    \/ CancelWaitRegister
    \/ CancelWaitWake

InitCancel == CancInit /\ DirInit /\ FsInit({EmptyFs})

SpecCancel == InitCancel /\ [][NextCancel]_vars

(***************************************************************************)
(* SpecDir: one DirectoryModel, its load() calls, the monitoring tasks     *)
(* they spawn (tokio::spawn: each runs in parallel with the callers and    *)
(* with each other), its subscribers, and the token passed to load().      *)
(***************************************************************************)
TokenArgs == {NoToken, 1}

DirSubscribe == \E s \in Subs : Subscribe(s) /\ UNCHANGED nonDirVars
DirLoadCall == \E l \in Loads : LoadCall(l, 1) /\ UNCHANGED nonDirVars
DirLoadSend == \E l \in Loads : LoadSend(l) /\ UNCHANGED nonDirVars
DirFsEvent == \E ev \in Events : FsEvent(ev) /\ UNCHANGED nonDirVars
DirMonApply == \E l \in Loads, ok \in BOOLEAN : MonApply(l, ok) /\ UNCHANGED nonDirVars
DirMonSend == \E l \in Loads : MonSend(l) /\ UNCHANGED nonDirVars

NextDir ==
    \/ DirSubscribe
    \/ DirLoadCall
    \/ DirLoadSend
    \/ DirFsEvent
    \/ DirMonApply
    \/ DirMonSend

InitDir == CancInitWithToken /\ DirInit /\ FsInit({EmptyFs})

SpecDir == InitDir /\ [][NextDir]_vars

(***************************************************************************)
(* Spec: the local backend's operations on one filesystem, called one      *)
(* after the other (each is a single system call, so calls made by         *)
(* concurrent tasks take effect in some such order), the sinks they hand   *)
(* out, and the writes of those sinks landing in the background.           *)
(***************************************************************************)
FsCreateFile == \E p \in Paths : CreateFile(p, NoToken) /\ UNCHANGED nonFsVars
FsReplace == \E p \in Paths : Replace(p, NoToken) /\ UNCHANGED nonFsVars
FsAppendTo == \E p \in Paths : AppendTo(p, NoToken) /\ UNCHANGED nonFsVars
FsDelete == \E p \in Paths : Delete(p, NoToken) /\ UNCHANGED nonFsVars
FsMakeDirectory == \E p \in Paths : MakeDirectory(p, NoToken) /\ UNCHANGED nonFsVars
FsSinkWrite == \E k \in Sinks, d \in WriteData : SinkWrite(k, d) /\ UNCHANGED nonFsVars
FsSinkWriteDone == \E k \in Sinks : SinkWriteDone(k) /\ UNCHANGED nonFsVars
FsSinkClose == \E k \in Sinks : SinkClose(k) /\ UNCHANGED nonFsVars

Next ==
    \/ FsCreateFile
    \/ FsReplace
    \/ FsAppendTo
    \/ FsDelete
    \/ FsMakeDirectory
    \/ FsSinkWrite
    \/ FsSinkWriteDone
    \/ FsSinkClose

Init == CancInitWithToken /\ DirInit /\ FsInit(InitFs)

Spec == Init /\ [][Next]_vars

(***************************************************************************)
(* SpecCopy: one copy() call with a token, the token being cancelled at    *)
(* any moment, and the sink's writes landing in the background.            *)
(***************************************************************************)
\* The source lengths: empty, under a chunk, one chunk, a chunk and a byte,
\* two chunks.
CopyContents ==
    {Empty, <<Run(1, 1)>>, <<Run(1, BufSize)>>, <<Run(1, BufSize), Run(2, 1)>>,
     <<Run(1, BufSize), Run(2, BufSize)>>}

\* "a" is the regular file to copy, "b" is absent, a short file or a file
\* longer than any source, "d" is a directory.
CopyInitFs ==
    { [p \in Paths |-> CASE p = "a" -> FileNode(c) [] p = "b" -> nb [] p = "d" -> DirNode
                         [] OTHER -> Absent] :
        c \in CopyContents,
        nb \in {Absent, FileNode(<<Run(3, 3)>>), FileNode(<<Run(3, 3 * BufSize)>>)} }

CopyBegin ==
    \E src \in {"a", "d"}, dst \in Paths, over \in BOOLEAN :
        CopyStart(src, dst, over, 1) /\ UNCHANGED nonFsVars
CopyStepOpenDst == CopyOpenDst /\ UNCHANGED nonFsVars
CopyStepQuery == CopyQuery /\ UNCHANGED nonFsVars
CopyStepCheck == CopyCheck /\ UNCHANGED nonFsVars
CopyStepRead == CopyRead /\ UNCHANGED nonFsVars
CopyStepWrite == CopyWrite /\ UNCHANGED nonFsVars
CopyCancel == CopyCancelled(1) /\ UNCHANGED <<dirVars, regVars, svcVars>>

NextCopy ==
    \/ CopyBegin
    \/ CopyStepOpenDst
    \/ CopyStepQuery
    \/ CopyStepCheck
    \/ CopyStepRead
    \/ CopyStepWrite
    \/ CopyCancel
    \/ FsSinkWriteDone

InitCopy == CancInitWithToken /\ DirInit /\ FsInit(CopyInitFs)

SpecCopy == InitCopy /\ [][NextCopy]_vars

(***************************************************************************)
(* SpecMove: one move_to() call between two paths of the local backend,    *)
(* with or without a token, which may be cancelled at any moment.          *)
(***************************************************************************)
\* The moves whose outcome stays within the modelled paths and links: not of
\* a directory that holds entries, not of a link onto its own target.
MoveModelled(f, src, dst) ==
    /\ ~(f[src].kind = "dir" /\ HasChildren(f, src))
    /\ ~(f[src].kind = "link" /\ f[src].target = dst)

MoveBegin ==
    \E src \in Paths, dst \in Paths, over, nofb, mounted \in BOOLEAN, tok \in TokenArgs :
        /\ MoveModelled(fs, src, dst)
        /\ MoveStart(src, dst, over, nofb, mounted, tok)
        /\ UNCHANGED nonFsVars
MoveStepRename == MoveRename /\ UNCHANGED nonFsVars
MoveCancel == TokCancel(1) /\ cancelCount[1] = 0 /\ UNCHANGED nonCancVars

NextMove ==
    \/ MoveBegin
    \/ MoveStepRename
    \/ MoveCancel

InitMove == CancInitWithToken /\ DirInit /\ FsInit(InitFs)

SpecMove == InitMove /\ [][NextMove]_vars

(***************************************************************************)
(* SpecMoveRace: SpecMove, with another task that calls create_file() on   *)
(* the destination while move_to() stands between its exists() test and    *)
(* its rename.                                                             *)
(***************************************************************************)
MoveRaceCreate ==
    /\ mv.pc = "rename"
    /\ CreateFile(mv.dst, NoToken)
    /\ UNCHANGED nonFsVars

NextMoveRace ==
    \/ MoveBegin
    \/ MoveRaceCreate
    \/ MoveStepRename
    \/ MoveCancel

InitMoveRace == CancInitWithToken /\ DirInit /\ FsInit(InitFs)

SpecMoveRace == InitMoveRace /\ [][NextMoveRace]_vars

(***************************************************************************)
(* SpecTrash: trash() calls, one after the other, over a filesystem and a  *)
(* trash directory that may already hold entries.                          *)
(***************************************************************************)
TrashBegin ==
    \E p \in Paths, tok \in TokenArgs : TrashStart(p, tok) /\ UNCHANGED nonFsVars
TrashStepDirs == TrashDirs /\ UNCHANGED nonFsVars
TrashStepRename == TrashRename /\ UNCHANGED nonFsVars
TrashStepWriteInfo == \E ok \in BOOLEAN : TrashWriteInfo(ok) /\ UNCHANGED nonFsVars
TrashCancel == TokCancel(1) /\ cancelCount[1] = 0 /\ UNCHANGED nonCancVars

NextTrash ==
    \/ TrashBegin
    \/ TrashStepDirs
    \/ TrashStepRename
    \/ TrashStepWriteInfo
    \/ TrashCancel

InitTrashSpec == CancInitWithToken /\ DirInit /\ FsInitTrash(InitFs, InitTrash)

SpecTrash == InitTrashSpec /\ [][NextTrash]_vars

(***************************************************************************)
(* SpecHandles: backends are registered, URIs are resolved, and handles    *)
(* are asked for the parent of a child, in any order.                      *)
(***************************************************************************)
HandlesRegister == \E b \in Backends : RegisterBackend(b) /\ UNCHANGED nonRegVars
HandlesGetFileForUri == \E u \in UriInputs : GetFileForUri(u) /\ UNCHANGED nonRegVars
HandlesGetBackend ==
    \E s \in {FileScheme, SftpScheme, <<"h">>} : GetBackendForScheme(s) /\ UNCHANGED nonRegVars
HandlesChildParent ==
    \E f \in HandlePaths, n \in ChildNames : ChildParent(f, n) /\ UNCHANGED nonRegVars

NextHandles ==
    \/ HandlesRegister
    \/ HandlesGetFileForUri
    \/ HandlesGetBackend
    \/ HandlesChildParent

InitHandles == CancInit /\ DirInit /\ FsInit({EmptyFs})

SpecHandles == InitHandles /\ [][NextHandles]_vars

(***************************************************************************)
(* SpecMonitor: one FileMonitor; the watch source produces events on       *)
(* notify's thread while the consumer calls next_event at its own pace.    *)
(***************************************************************************)
MonitorStepProduce == MonitorProduce /\ UNCHANGED nonSvcVars
MonitorStepUnblock == MonitorUnblock /\ UNCHANGED nonSvcVars
MonitorStepNextEvent == MonitorNextEvent /\ UNCHANGED nonSvcVars

NextMonitor ==
    \/ MonitorStepProduce
    \/ MonitorStepUnblock
    \/ MonitorStepNextEvent

InitMonitor == CancInit /\ DirInit /\ FsInit({EmptyFs})

SpecMonitor == InitMonitor /\ [][NextMonitor]_vars

(***************************************************************************)
(* SpecVolumes: one VolumeMonitor shared by two callers of start() and     *)
(* stop(), its polling tasks, and devices that come and go.                *)
(***************************************************************************)
VolumesHwChange ==
    /\ \/ \E u \in Uuids : HwChange("volume", u)
       \/ \E mp \in MountPaths : HwChange("mount", mp)
       \/ \E d \in Devices : HwChange("drive", d)
    /\ UNCHANGED <<fm, dv, be, dm, uc, th, mt, nonSvcVars>>
VolumesStartCheck == \E c \in Callers : VmStartCheck(c) /\ UNCHANGED <<fm, dv, be, dm, uc, th, mt, nonSvcVars>>
VolumesStartSpawn == \E c \in Callers : VmStartSpawn(c) /\ UNCHANGED <<fm, dv, be, dm, uc, th, mt, nonSvcVars>>
VolumesLoad == \E c \in Callers, avail \in BOOLEAN : VmLoad(c, avail) /\ UNCHANGED <<fm, dv, be, dm, uc, th, mt, nonSvcVars>>
VolumesStop == VmStop /\ UNCHANGED <<fm, dv, be, dm, uc, th, mt, nonSvcVars>>
VolumesPollFetch == \E t \in Tasks, ok \in BOOLEAN : VmPollFetch(t, ok) /\ UNCHANGED <<fm, dv, be, dm, uc, th, mt, nonSvcVars>>
VolumesPollDiff == \E t \in Tasks : VmPollDiff(t) /\ UNCHANGED <<fm, dv, be, dm, uc, th, mt, nonSvcVars>>

NextVolumes ==
    \/ VolumesHwChange
    \/ VolumesStartCheck
    \/ VolumesStartSpawn
    \/ VolumesLoad
    \/ VolumesStop
    \/ VolumesPollFetch
    \/ VolumesPollDiff

InitVolumes == CancInit /\ DirInit /\ FsInit({EmptyFs})

SpecVolumes == InitVolumes /\ [][NextVolumes]_vars

(***************************************************************************)
(* SpecMounts: volumes of the block service, mounts of the mount table and *)
(* lookups of the mount of a path, over small tables: one call, with any    *)
(* of the inputs.                                                          *)
(***************************************************************************)
MountPoints ==
    {<<"/">>, <<"/", "home">>, <<"/", "home", "/", "u">>, <<"/", "home", "2">>,
     <<"/", "proc">>, <<"/", "sys", "/", "fs">>, <<"/", "dev", "/", "shm">>,
     <<"/", "mnt", "/", "x">>, <<"/", "media", "/", "u">>}
FsTypes == {"ext4", "tmpfs", "proc", "autofs"}

\* The entries of the tables looked up in.
TableEntries ==
    {MountEntry(<<"/">>, "ext4"), MountEntry(<<"/", "home">>, "ext4"),
     MountEntry(<<"/", "home">>, "autofs"), MountEntry(<<"/", "home", "/", "u">>, "ext4"),
     MountEntry(<<"/", "proc">>, "proc"), MountEntry(<<"/", "mnt", "/", "x">>, "tmpfs")}
Tables == UNION {[1..n -> TableEntries] : n \in 0..MaxTable}
LookupPaths ==
    {<<"/">>, <<"/", "home", "/", "u", "/", "x">>, <<"/", "home", "2", "/", "y">>,
     <<"/", "proc", "/", "1">>, <<"/", "mnt", "/", "x", "/", "f">>, <<"home", "/", "u">>}

MountsVolume ==
    /\ dv = NoDeviceCall
    /\ \E hasUuid \in BOOLEAN, n \in 0..2 :
            VolumeLattice(<<"/", "block_devices", "/", "sda1">>,
                          IF hasUuid THEN Some(<<"u1">>) ELSE None,
                          SubSeq(<< <<"/", "mnt", "/", "a">>, <<"/", "mnt", "/", "b">> >>, 1, n))
    /\ UNCHANGED nonSvcVars
MountsUnixMount ==
    /\ dv = NoDeviceCall
    /\ \E mp \in MountPoints, t \in FsTypes : UnixMountCalls(MountEntry(mp, t))
    /\ UNCHANGED nonSvcVars
MountsGetMountForPath ==
    /\ dv = NoDeviceCall
    /\ \E table \in Tables, path \in LookupPaths : GetMountForPath(table, path)
    /\ UNCHANGED nonSvcVars

NextMounts ==
    \/ MountsVolume
    \/ MountsUnixMount
    \/ MountsGetMountForPath

InitMounts == CancInit /\ DirInit /\ FsInit({EmptyFs})

SpecMounts == InitMounts /\ [][NextMounts]_vars

(***************************************************************************)
(* SpecDevices: one DevicesModel, getters and one load() or refresh()      *)
(* called by concurrent tasks, and backends whose lists change.            *)
(***************************************************************************)
DevicesBackendChange ==
    /\ \E k \in Kinds, list \in Lists : BackendChange(k, list)
    /\ UNCHANGED <<fm, hw, vm, dv, uc, th, mt, nonSvcVars>>
DevicesGetRead ==
    /\ \E g \in Getters, k \in Kinds : DmGetRead(g, k)
    /\ UNCHANGED <<fm, hw, vm, dv, uc, th, mt, nonSvcVars>>
DevicesGetFetch ==
    /\ \E g \in Getters, ok \in BOOLEAN : DmGetFetch(g, ok)
    /\ UNCHANGED <<fm, hw, vm, dv, uc, th, mt, nonSvcVars>>
DevicesGetStore ==
    /\ \E g \in Getters : DmGetStore(g)
    /\ UNCHANGED <<fm, hw, vm, dv, uc, th, mt, nonSvcVars>>
DevicesLoadFetch ==
    /\ \E ok \in BOOLEAN : DmLoadFetch(ok)
    /\ UNCHANGED <<fm, hw, vm, dv, uc, th, mt, nonSvcVars>>
DevicesLoadStore ==
    /\ DmLoadStore
    /\ UNCHANGED <<fm, hw, vm, dv, uc, th, mt, nonSvcVars>>

NextDevices ==
    \/ DevicesBackendChange
    \/ DevicesGetRead
    \/ DevicesGetFetch
    \/ DevicesGetStore
    \/ DevicesLoadFetch
    \/ DevicesLoadStore

InitDevices == CancInit /\ DirInit /\ FsInit({EmptyFs})

SpecDevices == InitDevices /\ [][NextDevices]_vars

(***************************************************************************)
(* SpecConnect: tasks call into one UDisks2Backend concurrently; every     *)
(* call starts with ensure_connected.                                      *)
(***************************************************************************)
ConnectCheck ==
    \E c \in Connectors : EnsureCheck(c)
    /\ UNCHANGED <<fm, hw, vm, dv, be, dm, th, mt, nonSvcVars>>
ConnectConnect ==
    \E c \in Connectors, ok \in BOOLEAN : EnsureConnect(c, ok)
    /\ UNCHANGED <<fm, hw, vm, dv, be, dm, th, mt, nonSvcVars>>
ConnectStore ==
    \E c \in Connectors : EnsureStore(c)
    /\ UNCHANGED <<fm, hw, vm, dv, be, dm, th, mt, nonSvcVars>>

NextConnect ==
    \/ ConnectCheck
    \/ ConnectConnect
    \/ ConnectStore

InitConnect == CancInit /\ DirInit /\ FsInit({EmptyFs})

SpecConnect == InitConnect /\ [][NextConnect]_vars

(***************************************************************************)
(* SpecThumbnails: the thumbnail calls on one source file, while the clock *)
(* runs and the source is rewritten or removed.                            *)
(***************************************************************************)
MaxSecs == AsSecs(MaxTicks) + 1

ThumbnailsTick == ThTick /\ UNCHANGED <<fm, hw, vm, dv, be, dm, uc, mt, nonSvcVars>>
ThumbnailsTouch ==
    \E keep \in BOOLEAN : ThTouch(keep)
    /\ UNCHANGED <<fm, hw, vm, dv, be, dm, uc, mt, nonSvcVars>>
ThumbnailsHasValid ==
    \E z \in ThumbnailSizes, m \in 0..MaxSecs : ThHasValid(z, m)
    /\ UNCHANGED <<fm, hw, vm, dv, be, dm, uc, mt, nonSvcVars>>
ThumbnailsGetPath ==
    \E z \in ThumbnailSizes : ThGetPath(z)
    /\ UNCHANGED <<fm, hw, vm, dv, be, dm, uc, mt, nonSvcVars>>
ThumbnailsGenerate ==
    \E z \in ThumbnailSizes, made \in BOOLEAN : ThGenerate(z, made)
    /\ UNCHANGED <<fm, hw, vm, dv, be, dm, uc, mt, nonSvcVars>>
ThumbnailsGetOrGenerate ==
    \E z \in ThumbnailSizes, made \in BOOLEAN : ThGetOrGenerate(z, made)
    /\ UNCHANGED <<fm, hw, vm, dv, be, dm, uc, mt, nonSvcVars>>

NextThumbnails ==
    \/ ThumbnailsTick
    \/ ThumbnailsTouch
    \/ ThumbnailsHasValid
    \/ ThumbnailsGetPath
    \/ ThumbnailsGenerate
    \/ ThumbnailsGetOrGenerate

InitThumbnails == CancInit /\ DirInit /\ FsInit({EmptyFs})

SpecThumbnails == InitThumbnails /\ [][NextThumbnails]_vars

(***************************************************************************)
(* SpecTaskLife: loads, subscribers and the drop of a DirectoryModel, with *)
(* the tasks its loads spawned. The runtime polls a task that can go on:   *)
(* weak fairness of the task's step.                                       *)
(***************************************************************************)
TaskLifeLoad ==
    \E t \in LifeTasks : LifeLoad(t)
    /\ UNCHANGED <<fm, hw, vm, dv, be, dm, uc, th, nonSvcVars>>
TaskLifeSubscribe == LifeSubscribe /\ UNCHANGED <<fm, hw, vm, dv, be, dm, uc, th, nonSvcVars>>
TaskLifeDropSubscriber ==
    LifeDropSubscriber /\ UNCHANGED <<fm, hw, vm, dv, be, dm, uc, th, nonSvcVars>>
TaskLifeDropModel == LifeDropModel /\ UNCHANGED <<fm, hw, vm, dv, be, dm, uc, th, nonSvcVars>>
TaskLifeEvent ==
    \E t \in LifeTasks : LifeEvent(t)
    /\ UNCHANGED <<fm, hw, vm, dv, be, dm, uc, th, nonSvcVars>>
TaskLifeStep(t) ==
    LifeNextEvent(t) /\ UNCHANGED <<fm, hw, vm, dv, be, dm, uc, th, nonSvcVars>>
TaskLifeNextEvent == \E t \in LifeTasks : TaskLifeStep(t)

NextTaskLife ==
    \/ TaskLifeLoad
    \/ TaskLifeSubscribe
    \/ TaskLifeDropSubscriber
    \/ TaskLifeDropModel
    \/ TaskLifeEvent
    \/ TaskLifeNextEvent

InitTaskLife == CancInit /\ DirInit /\ FsInit({EmptyFs})

SpecTaskLife ==
    /\ InitTaskLife /\ [][NextTaskLife]_vars
    /\ \A t \in LifeTasks : WF_vars(TaskLifeStep(t))

(***************************************************************************)
(* SpecPreCancelled: a token is cancelled, and then the operations that    *)
(* take a token are called with it.                                        *)
(***************************************************************************)
\* The number of operations called so far, of any kind.
PreCalls ==
    nops + (IF cp.pc # "idle" THEN 1 ELSE 0) + (IF mv.pc # "idle" THEN 1 ELSE 0)
         + tr.calls + (IF ud.op # "" THEN 1 ELSE 0)
         + Cardinality({l \in Loads : loadpc[l] # "idle"})

\* The next call is made with token 1, which has been cancelled.
PreCall == IsCancelled(1) /\ PreCalls < MaxOps

PreCancel == TokCancel(1) /\ UNCHANGED nonCancVars
PreCreateFile == PreCall /\ \E p \in Paths : CreateFile(p, 1) /\ UNCHANGED nonFsVars
PreReplace == PreCall /\ \E p \in Paths : Replace(p, 1) /\ UNCHANGED nonFsVars
PreAppendTo == PreCall /\ \E p \in Paths : AppendTo(p, 1) /\ UNCHANGED nonFsVars
PreDelete == PreCall /\ \E p \in Paths : Delete(p, 1) /\ UNCHANGED nonFsVars
PreMakeDirectory == PreCall /\ \E p \in Paths : MakeDirectory(p, 1) /\ UNCHANGED nonFsVars
PreQuery ==
    PreCall /\ \E op \in QueryOps, p \in Paths : Query(op, p, 1) /\ UNCHANGED nonFsVars
PreCopy ==
    PreCall /\ \E dst \in {"b", "d/c"}, over \in BOOLEAN :
        CopyStart("a", dst, over, 1) /\ UNCHANGED nonFsVars
PreMoveTo ==
    PreCall /\ \E dst \in {"b", "d/c"}, over \in BOOLEAN :
        MoveStart("a", dst, over, FALSE, FALSE, 1) /\ UNCHANGED nonFsVars
PreTrash == PreCall /\ \E p \in {"a", "d"} : TrashStart(p, 1) /\ UNCHANGED nonFsVars
PreLoad == PreCall /\ \E l \in Loads : LoadCall(l, 1) /\ UNCHANGED nonDirVars
PreUdGet ==
    PreCall /\ \E op \in UdOps, connects, answers \in BOOLEAN :
        UdGet(op, 1, connects, answers) /\ UNCHANGED nonFsVars

NextPreCancelled ==
    \/ PreCancel
    \/ PreCreateFile
    \/ PreReplace
    \/ PreAppendTo
    \/ PreDelete
    \/ PreMakeDirectory
    \/ PreQuery
    \/ PreCopy
    \/ PreMoveTo
    \/ PreTrash
    \/ PreLoad
    \/ PreUdGet

InitPreCancelled == CancInitWithToken /\ DirInit /\ FsInit(InitFs)

SpecPreCancelled == InitPreCancelled /\ [][NextPreCancelled]_vars

RECURSIVE C1_Apply(_, _, _)
\* The list a subscriber rebuilds from the updates it received: Initial carries
\* the list, Added appends, Removed drops the entry of that name, Changed
\* replaces the entry of that name.
C1_Apply(list, seq, i) ==
    IF i > Len(seq) THEN list
    ELSE LET u == seq[i]
             hit == {k \in 1..Len(list) : list[k].name = u.info.name}
             pos == IF hit = {} THEN 0 ELSE CHOOSE k \in hit : \A j \in hit : k <= j
             next ==
                CASE u.kind = "Initial" -> u.list
                  [] u.kind = "Added" -> list \o <<u.info>>
                  [] u.kind = "Removed" ->
                        IF pos = 0 THEN list
                        ELSE SubSeq(list, 1, pos - 1) \o SubSeq(list, pos + 1, Len(list))
                  [] u.kind = "Changed" ->
                        IF pos = 0 THEN list
                        ELSE SubSeq(list, 1, pos - 1) \o <<u.info>>
                                \o SubSeq(list, pos + 1, Len(list))
                  [] OTHER -> list
         IN C1_Apply(next, seq, i + 1)

\* load() was called once and has returned, and no task is between its write
\* to the list and its send.
C1_Quiescent ==
    /\ loadpc[1] \in {"ok", "err"}
    /\ \A l \in Loads : l # 1 => loadpc[l] = "idle"
    /\ \A l \in Loads : monpc[l] # "send"

(***************************************************************************)
(* C1: for a subscriber that subscribed before load(), at every quiescent  *)
(* point after load() returned, the list of the Initial update it received *)
(* with every later update applied in delivery order is the list files()   *)
(* returns.                                                                *)
(***************************************************************************)
C1_Reconstruction ==
    \A s \in Subs :
        (/\ subscribed[s] /\ subEarly[s]
         /\ C1_Quiescent
         /\ \E i \in DOMAIN recvd[s] : recvd[s][i].kind = "Initial")
            => C1_Apply(<<>>, recvd[s], 1) = files

\* A quiescent point at which the subscriber has received Initial, an Added
\* and a Removed update.
C1_Witness ==
    \E s \in Subs :
        /\ subscribed[s] /\ subEarly[s]
        /\ C1_Quiescent
        /\ Len(recvd[s]) >= 3
        /\ recvd[s][1].kind = "Initial"
        /\ \E i, j \in DOMAIN recvd[s] :
                i < j /\ recvd[s][i].kind = "Added" /\ recvd[s][j].kind = "Removed"

(***************************************************************************)
(* C2: the updates delivered to one subscriber are in the order in which   *)
(* the writes they report were applied to the shared children list.        *)
(***************************************************************************)
C2_DeliveryInMutationOrder ==
    \A s \in Subs :
        \A i, j \in DOMAIN recvd[s] :
            i < j => recvd[s][i].mid < recvd[s][j].mid

(***************************************************************************)
(* C5: a token is armed until cancel() is called on any of its clones, and *)
(* cancelled on every clone for ever after: is_cancelled() and check()     *)
(* of every handle say exactly whether cancel() was ever called on a       *)
(* handle of its family, and cancel() notifies the waiters exactly once,   *)
(* however often it is called.                                             *)
(***************************************************************************)
C5_TokenMonotone ==
    \A h \in Handles :
        hInner[h] # 0 =>
            /\ IsCancelled(h) = cancelRequested[hFamily[h]]
            /\ Check(h) = (IF cancelRequested[hFamily[h]] THEN "Cancelled" ELSE "Ok")
            /\ notifyCalls[hInner[h]] = (IF cancelRequested[hFamily[h]] THEN 1 ELSE 0)

\* cancel() was called twice on one clone, and another clone reports cancelled.
C5_Witness ==
    \E h1, h2 \in Handles :
        /\ h1 # h2
        /\ hInner[h1] # 0 /\ hInner[h2] # 0
        /\ hFamily[h1] = hFamily[h2]
        /\ cancelCount[hFamily[h1]] = 2
        /\ IsCancelled(h2) /\ Check(h2) = "Cancelled"

(***************************************************************************)
(* C6: a pending cancelled() wait on a token that has been cancelled       *)
(* always has its wake-up: no task is parked on the notifier of a          *)
(* cancelled token without a notify_waiters() call that reaches it.        *)
(***************************************************************************)
C6_NoLostWakeup ==
    \A w \in Waiters :
        (wpc[w] = "pending" /\ IsCancelled(wtok[w]))
            => notifyCalls[hInner[wtok[w]]] # wsnap[w]

(***************************************************************************)
(* C3: an operation called with a token that is already cancelled returns  *)
(* Cancelled and changes nothing: the filesystem is the one it found, no   *)
(* stream was opened, the DirectoryModel holds no list, sent no update and *)
(* started no monitor, and the UDisks2 backend made no connection.         *)
(***************************************************************************)
C3_PreCancelledNoEffect ==
    IsCancelled(1) =>
        /\ (last.op # "" /\ last.tok = 1) => last.res = "Cancelled"
        /\ (cp.pc # "idle" /\ cp.tok = 1) => (cp.pc = "done" /\ cp.res = "Cancelled")
        /\ (mv.pc # "idle" /\ mv.tok = 1) => (mv.pc = "done" /\ mv.res = "Cancelled")
        /\ (tr.pc # "idle" /\ tr.tok = 1) => (tr.pc = "done" /\ tr.res = "Cancelled")
        /\ ud.op # "" => (ud.res = "Cancelled" /\ ~ud.conn)
        /\ \A l \in Loads :
              (loadpc[l] # "idle" /\ loadTok[l] = 1) =>
                    (loadpc[l] = "err" /\ loadRes[l] = "Cancelled" /\ monpc[l] = "off")
        /\ \A p \in Paths :
              /\ ReadOp(fs, p, 1).res = "Cancelled"
              /\ QueryInfoOp(fs, p, 1).res = "Cancelled"
              /\ ExistsOp(fs, p, 1).res = "Cancelled"
              /\ EnumerateChildrenOp(fs, p, 1).res = "Cancelled"
              /\ MonitorOp(fs, p, 1).res = "Cancelled"
        /\ fs = fs0
        /\ \A k \in Sinks : sinks[k] = NoSink
        /\ \A p \in Paths : created[p] = 0 /\ vacated[p] = 0
        /\ files = <<>> /\ nmut = 0
        /\ \A s \in Subs : recvd[s] = <<>>

\* delete() was called with the cancelled token on a file that is there, and
\* so were copy(), trash() and load().
C3_Witness ==
    /\ IsCancelled(1)
    /\ last.op = "delete" /\ last.tok = 1 /\ last.res = "Cancelled"
    /\ last.pre.kind = "file" /\ fs[last.path].kind = "file"
    /\ cp.res = "Cancelled" /\ tr.res = "Cancelled"

(***************************************************************************)
(* C4 as the spec states it: if the token is cancelled while copy() is     *)
(* running, copy() returns Cancelled.                                      *)
(***************************************************************************)
C4_CancelledDuring == cp.pc = "done" /\ cp.cancelPc \notin {"", "idle", "done"}

C7_RoundTrip ==
    \A k \in Sinks :
        LET s == sinks[k] IN
        (s.how = "create_file" /\ s.st = "closed" /\ s.clean /\ ~s.late) =>
            /\ ReadOp(fs, s.path, NoToken) = [res |-> "Ok", data |-> s.written]
            /\ QueryInfoOp(fs, s.path, NoToken).res = "Ok"
            /\ QueryInfoOp(fs, s.path, NoToken).size = CLen(s.written)
            /\ ExistsOp(fs, s.path, NoToken) = [res |-> "Ok", val |-> TRUE]

(***************************************************************************)
(* C8: create_file on a path that holds a node fails with Exists and       *)
(* leaves the node as it was; on an absent path in an existing directory   *)
(* it succeeds and leaves an empty file; and a path is created at most     *)
(* once for each time it was absent, so of two create_file calls on the    *)
(* same absent path exactly one succeeds.                                  *)
(***************************************************************************)
C8_ExclusiveCreate ==
    /\ last.op = "create_file" =>
            /\ last.pre.kind # "none" =>
                    (last.res = "Exists" /\ fs[last.path] = last.pre)
            /\ (last.pre.kind = "none" /\ ParentKind(fs, last.path) = "dir") =>
                    (last.res = "Ok" /\ fs[last.path] = FileNode(Empty))
            /\ last.res = "Ok" => last.pre.kind = "none"
    /\ \A p \in Paths :
            created[p] <= vacated[p] + (IF fs0[p].kind = "none" THEN 1 ELSE 0)

\* Two create_file calls on a path that was absent: the first succeeded and
\* its bytes landed, the second failed with Exists and the bytes are there.
C8_Witness ==
    /\ last.op = "create_file" /\ last.res = "Exists"
    /\ fs0[last.path].kind = "none"
    /\ created[last.path] = 1 /\ vacated[last.path] = 0
    /\ fs[last.path].kind = "file" /\ fs[last.path].data # Empty

(***************************************************************************)
(* C9: right after delete(u) returned Ok, exists(u) is false and           *)
(* query_info(u) fails with NotFound, whether u was a regular file, a      *)
(* symbolic link or an empty directory.                                    *)
(***************************************************************************)
C9_DeleteRemoves ==
    (last.op = "delete" /\ last.res = "Ok") =>
        /\ last.pre.kind \in {"file", "link", "dir"}
        /\ ExistsOp(fs, last.path, NoToken) = [res |-> "Ok", val |-> FALSE]
        /\ QueryInfoOp(fs, last.path, NoToken).res = "NotFound"

\* delete() removed a symbolic link whose target is still there.
C9_Witness ==
    /\ last.op = "delete" /\ last.res = "Ok"
    /\ last.pre.kind = "link"
    /\ fs[last.pre.target].kind # "none"

(***************************************************************************)
(* C10: after copy(src, dst, OVERWRITE) of a regular file returned Ok, the *)
(* content of dst is the content of src, whatever the length of src and    *)
(* whatever dst held before.                                               *)
(***************************************************************************)
C10_CopyByteExact ==
    (cp.pc = "done" /\ cp.res = "Ok" /\ cp.over /\ fs0[cp.src].kind = "file") =>
        /\ ReadOp(fs, cp.dst, NoToken).res = "Ok"
        /\ ReadOp(fs, cp.dst, NoToken).data = ReadOp(fs, cp.src, NoToken).data

(***************************************************************************)
(* C11: copy() without OVERWRITE onto a destination that exists leaves the *)
(* destination as it was and, the source having been opened and the token  *)
(* not cancelled, fails with Exists; copy() with OVERWRITE creates or      *)
(* truncates the destination: from the open on, the destination file holds *)
(* what the copy has written and that has landed, nothing of before.       *)
(***************************************************************************)
C11_CopyHonoursOverwrite ==
    /\ (cp.pc # "idle" /\ ~cp.over /\ fs0[cp.dst].kind # "none") =>
            /\ fs[cp.dst] = fs0[cp.dst]
            /\ cp.out = 0
            /\ (cp.pc = "done" /\ OpenReadError(fs0, cp.src) = "Ok"
                    /\ cp.cancelPc \in {"", "done"}) => cp.res = "Exists"
    /\ (cp.pc # "idle" /\ cp.over /\ cp.out # 0) =>
            LET q == Resolve(fs0, cp.dst) IN
            /\ fs[q].kind = "file"
            /\ CCat(fs[q].data, sinks[cp.out].pending) = sinks[cp.out].written

\* copy() without OVERWRITE onto a file of three bytes has returned Exists.
C11_Witness ==
    /\ cp.pc = "done"
    /\ ~cp.over
    /\ cp.res = "Exists"
    /\ fs0[cp.dst] = FileNode(<<Run(3, 3)>>)
    /\ fs[cp.dst] = fs0[cp.dst]

(***************************************************************************)
(* C12: the progress callback of copy() is given, after each chunk, the    *)
(* number of bytes written so far and the size query_info reported (0 when *)
(* it failed): the values grow by 1..8192 at each call, and when copy()    *)
(* returns Ok for a source that held bytes when copy() was called, the     *)
(* last value is the size of that source.                                  *)
(***************************************************************************)
C12_ProgressByteAccurate ==
    LET pr == cp.progress
        cur(i) == IF i = 0 THEN 0 ELSE pr[i][1]
    IN
    /\ \A i \in 1..Len(pr) :
            /\ cur(i) - cur(i - 1) \in 1..BufSize
            /\ pr[i][2] = cp.total
            /\ pr[i][2] \in {0, CLen(fs[cp.inp].data)}
    /\ cur(Len(pr)) = cp.written
    /\ (cp.pc = "done" /\ cp.res = "Ok" /\ fs0[cp.src].kind = "file"
            /\ fs0[cp.src].data # Empty) =>
                /\ Len(pr) > 0
                /\ cur(Len(pr)) = CLen(fs0[cp.src].data)

(***************************************************************************)
(* C13: whenever move_to(src, dst) has returned Ok, whatever the flags and *)
(* also when dst names the path of src, exists(src) is false and           *)
(* exists(dst) is true.                                                    *)
(***************************************************************************)
C13_MoveConservative ==
    (mv.pc = "done" /\ mv.res = "Ok") =>
        /\ ~ExistsOp(fs, mv.src, NoToken).val
        /\ ExistsOp(fs, mv.dst, NoToken).val

(***************************************************************************)
(* C14: when the rename of a regular file by move_to() fails because       *)
(* source and destination are on different devices, then without NO_FALLBACK_FOR_MOVE the move    *)
(* has gone on to copy the source, and with NO_FALLBACK_FOR_MOVE the move  *)
(* returns an error and nothing was copied.                                *)
(***************************************************************************)
C14_MoveFallback ==
    (mv.pc = "done" /\ mv.err = "CrossesDevices" /\ fs0[mv.src].kind = "file") =>
        IF mv.nofb
        THEN mv.res \notin {"", "Ok"} /\ cp.pc = "idle" /\ fs = fs0
        ELSE cp.pc # "idle"

RECURSIVE C15_PercentDecode(_)
\* Percent-decoding: "%" and the two hexadecimal digits of a character stand
\* for that character, everything else for itself.
C15_PercentDecode(s) ==
    LET coded == IF Len(s) >= 3 /\ s[1] = "%"
                 THEN {c \in PathEncodeSet \cup {"%"} : Hex(c) = <<s[2], s[3]>>}
                 ELSE {}
    IN IF s = <<>> THEN <<>>
       ELSE IF coded # {} THEN <<CHOOSE c \in coded : TRUE>> \o C15_PercentDecode(SubSeq(s, 4, Len(s)))
       ELSE <<s[1]>> \o C15_PercentDecode(Tail(s))

(***************************************************************************)
(* C15: after trash(u) has returned Ok, exists(u) is false, the entry      *)
(* Trash/files/<final-name>, whose name is u's basename or u's basename    *)
(* with a counter, is the node that was at u, Trash/info has a file for    *)
(* the same final name, its Path= value starts with "/" and, u having had  *)
(* a canonical path, percent-decodes to that canonical path.               *)
(***************************************************************************)
C15_TrashRoundTrip ==
    (tr.pc = "done" /\ tr.res = "Ok") =>
        LET u == tr.path
            base == FileName(Spelling(u))
        IN
        /\ ~ExistsOp(fs, u, NoToken).val
        /\ tr.name \in {base} \cup {TrashCandidate(base, k) : k \in 1..MaxCounter}
        /\ trash.files[tr.name].node = tr.at[u]
        /\ trash.info[tr.name].present
        /\ Head(trash.info[tr.name].path) = "/"
        /\ ExistsOp(tr.at, u, NoToken).val =>
                C15_PercentDecode(trash.info[tr.name].path) = Spelling(Resolve(tr.at, u))

\* trash() of the regular file "a", whose name holds a space and "%20", has
\* returned Ok.
C15_Witness ==
    /\ tr.pc = "done"
    /\ tr.res = "Ok"
    /\ tr.path = "a"
    /\ tr.at["a"].kind = "file"
    /\ trash.files[tr.name].node = FileNode(<<Run(1, 1)>>)
    /\ trash.info[tr.name].path # Spelling("a")

(***************************************************************************)
(* C16: a trash() call leaves every entry that Trash/files held when it    *)
(* was made as it was, and stores what it trashes under a name that was    *)
(* free.                                                                   *)
(***************************************************************************)
C16_TrashKeepsEntries ==
    (tr.pc \in {"rename", "info", "done"} /\ tr.before # <<>>) =>
        /\ \A n \in TrashNames :
                tr.before[n].node.kind # "none" => trash.files[n] = tr.before[n]
        /\ (tr.pc = "done" /\ tr.res = "Ok") => tr.before[tr.name].node.kind = "none"

(***************************************************************************)
(* C17: get_file_for_uri(u) of a URI with "://" whose scheme has the local *)
(* backend registered returns a handle whose uri() is u; of a u without    *)
(* "://", the local backend being registered, it returns a handle whose    *)
(* uri() is "file://" followed by u; of a URI whose scheme has no backend  *)
(* it fails with NotSupported.                                             *)
(***************************************************************************)
C17_UriRoundTrip ==
    call.op = "get_file_for_uri" =>
        LET u == call.arg
            b == GetBackend(call.seen, UriScheme(u))
        IN
        /\ (Find(u, SchemeSep) # 0 /\ b # NoBackend /\ Scheme(b) = FileScheme) =>
                call.out.res = "Ok" /\ call.out.uri = u
        /\ (Find(u, SchemeSep) = 0 /\ b # NoBackend) =>
                call.out.res = "Ok" /\ call.out.uri = LocalUri(u)
        /\ b = NoBackend => call.out.res = "NotSupported"

RECURSIVE C18_LastFor(_, _)
\* The backend registered last for a scheme in a sequence of registrations.
C18_LastFor(log, s) ==
    IF log = <<>> THEN NoBackend
    ELSE IF Scheme(log[Len(log)]) = s THEN log[Len(log)]
    ELSE C18_LastFor(SubSeq(log, 1, Len(log) - 1), s)

(***************************************************************************)
(* C18: after any sequence of register_backend calls, each scheme is       *)
(* mapped to the backend registered last for it (none when none was), so   *)
(* registering a backend again changes nothing and registrations for other *)
(* schemes leave the entry alone; a lookup returns that backend.           *)
(***************************************************************************)
C18_RegistryLastWins ==
    /\ \A s \in DOMAIN registry : registry[s] = C18_LastFor(regLog, s)
    /\ call.op = "get_backend_for_scheme" =>
            call.out.backend = GetBackend(call.seen, call.arg)

\* Backend 1, then backend 2 twice, were registered for "file", and backend 2
\* is what a lookup of "file" returned.
C18_Witness ==
    /\ regLog = <<1, 2, 2>>
    /\ registry[FileScheme] = 2
    /\ call.op = "get_backend_for_scheme"
    /\ call.arg = FileScheme
    /\ call.seen = registry
    /\ call.out.backend = 2

(***************************************************************************)
(* C19: for every handle f and every name without a path separator, "",    *)
(* "." and ".." included, f.child(name).parent() is a handle whose uri()   *)
(* is f.uri().                                                             *)
(***************************************************************************)
C19_ChildParent ==
    call.op = "child_parent" =>
        /\ call.out.some
        /\ LocalUri(call.out.path) = LocalUri(call.arg)

\* C20: a subscriber that subscribed to the DirectoryModel after a load() had
\* returned Ok receives Initial as its first update, before any Added or
\* Removed (load, subscribe, create x.txt: Initial, then Added).
C20_LateSubscriberInitialFirst ==
    \A s \in Subs :
        (subscribed[s] /\ subLate[s] /\ recvd[s] # <<>>)
            => recvd[s][1].kind = "Initial"

\* C21: when the monitoring task handles a Created or Changed event whose
\* query_info fails, or a Deleted event for a name that is not in the list, the
\* children list is left unchanged and no update is broadcast or left to send.
C21_FailedEventDropped ==
    [][\A l \in Loads :
        (monCur'[l] = monCur[l] + 1 /\ monCur[l] >= 1 /\ monCur[l] <= Len(fsLog)) =>
            LET ev == fsLog[monCur[l]] IN
            ((ev.kind \in {"Created", "Changed"} /\ ~monOk'[l])
                \/ (ev.kind = "Deleted" /\ Position(files, ev.name) = 0))
              => /\ files' = files
                 /\ recvd' = recvd
                 /\ monpc'[l] = "recv"
                 /\ monMsg'[l] = NoUpdate]_vars

\* A task has handled a Created or Changed event whose query_info failed while
\* a subscriber was listening.
C21_Witness ==
    \E l \in Loads :
        /\ monCur[l] > 1 /\ monCur[l] - 1 <= Len(fsLog)
        /\ fsLog[monCur[l] - 1].kind \in {"Created", "Changed"}
        /\ ~monOk[l]
        /\ \E s \in Subs : subscribed[s]

\* C22: the monitor's channel never holds more than 100 undelivered events;
\* the producer thread is never blocked by a slow consumer: an event produced
\* while the channel is full is enqueued at once (the oldest queued event being
\* dropped for it), so the newest event produced is always queued or
\* delivered; and the delivered events arrive in production order.
C22_Backpressure ==
    /\ Len(fm.chan) <= MonitorCapacity
    /\ fm.pend = 0
    /\ fm.next > 1 =>
        \/ \E i \in 1..Len(fm.chan) : fm.chan[i] = fm.next - 1
        \/ \E i \in 1..Len(fm.got) : fm.got[i] = fm.next - 1
    /\ \A i, j \in 1..Len(fm.got) : i < j => fm.got[i] < fm.got[j]

\* C23: once close() has been called on a byte-sink, every further write on it
\* fails with kind Closed: no sink ever accepts a write after its close().
C23_ClosedSinkRefusesWrites ==
    /\ \A k \in Sinks : ~sinks[k].late
    /\ \A k \in Sinks :
        (last.op = "write" /\ sinks[k].st = "closed" /\ sinks[k].pending # Empty
            /\ last.path = sinks[k].path) => last.res = "Closed"

\* The events the symmetric difference of a stored state and a fetched
\* snapshot calls for: volumes by uuid, mounts by path, drives by device.
C24_SymDiffEvents(before, world) ==
    {VmEvent("VolumeRemoved", u) : u \in before.volumes \ world.volumes}
        \cup {VmEvent("VolumeAdded", u) : u \in world.volumes \ before.volumes}
        \cup {VmEvent("MountRemoved", p) : p \in before.mounts \ world.mounts}
        \cup {VmEvent("MountAdded", p) : p \in world.mounts \ before.mounts}
        \cup {VmEvent("DriveDisconnected", d) : d \in before.drives \ world.drives}
        \cup {VmEvent("DriveConnected", d) : d \in world.drives \ before.drives}

\* C24: a poll cycle of the volume monitor broadcasts exactly one event per
\* element of the symmetric difference of the stored state and the newly
\* fetched snapshot: VolumeAdded/VolumeRemoved, MountAdded/MountRemoved and
\* DriveConnected/DriveDisconnected.
C24_PollBroadcastsSymDiff ==
    vm.cyc.n > 0 => vm.cyc.events = C24_SymDiffEvents(vm.cyc.before, vm.cyc.world)

\* C25: after stop() has returned and until start() is called again, the
\* polling task is cancelled (ended, or aborted and at its last poll) and no
\* VolumeMonitorEvent is broadcast.
C25_StopSilences ==
    /\ ~vm.sentAfterStop
    /\ vm.stopped =>
        \A t \in Tasks : vm.tasks[t].pc \in {"none", "dead"} \/ vm.tasks[t].aborted

\* C26: a mounted volume of the block service has get_mount() = Some(m) with
\* m.get_volume() = Some volume of the same object path and uuid; an
\* unmounted volume has get_mount() = None and can_mount() = true.
C26_VolumeMountLattice ==
    dv.op = "volume" =>
        IF dv.arg.mount_point.some
        THEN /\ dv.out.mount.some
             /\ dv.out.volume.some
             /\ dv.out.volume.val.path = dv.arg.path
             /\ dv.out.volume.val.uuid = dv.arg.uuid
        ELSE ~dv.out.mount.some /\ dv.arg.can_mount

\* C27: a mount classified system-internal (mount point /, or under /sys,
\* /proc or /dev, or of type tmpfs, devtmpfs, sysfs, proc or devpts) reports
\* can_unmount() = false and can_eject() = false whatever its mount point, and
\* unmount and eject on it fail with NotSupported.
C27_SystemInternalLocked ==
    (dv.op = "unix_mount" /\ IsSystemInternal(dv.arg)) =>
        /\ ~dv.out.can_unmount
        /\ ~dv.out.can_eject
        /\ dv.out.unmount = "NotSupported"
        /\ dv.out.eject = "NotSupported"

\* C28: get_mount_for_path(path) returns, among the mounts of the table whose
\* mount point is a component-wise prefix of path, one whose mount point has
\* the most components, None when there is no such mount; and it returns a
\* mount for every absolute path when the table contains /.
C28_LongestPrefixMount ==
    dv.op = "get_mount_for_path" =>
        LET mounts == BackendGetMounts(dv.arg)
            cands == {i \in 1..Len(mounts) :
                        PathComponents(dv.path).root = PathComponents(mounts[i].mount_point).root
                        /\ Len(PathComponents(mounts[i].mount_point).names)
                             <= Len(PathComponents(dv.path).names)
                        /\ \A k \in 1..Len(PathComponents(mounts[i].mount_point).names) :
                             PathComponents(mounts[i].mount_point).names[k]
                               = PathComponents(dv.path).names[k]}
        IN /\ dv.out.some <=> cands # {}
           /\ dv.out.some =>
                /\ \E i \in cands : mounts[i] = dv.out.val
                /\ \A j \in cands :
                     ComponentCount(mounts[j].mount_point)
                        <= ComponentCount(dv.out.val.mount_point)
           /\ ((\E i \in 1..Len(mounts) : mounts[i].mount_point = <<"/">>)
                 /\ dv.path # <<>> /\ dv.path[1] = "/") => dv.out.some

\* The scenario of the specification: the table holds / and /home, the path
\* /home/u/x is looked up and the mount /home is returned.
C28_Witness ==
    /\ dv.op = "get_mount_for_path"
    /\ dv.path = <<"/", "home", "/", "u", "/", "x">>
    /\ dv.arg = <<MountEntry(<<"/">>, "ext4"), MountEntry(<<"/", "home">>, "ext4")>>
    /\ dv.out.some
    /\ dv.out.val.mount_point = <<"/", "home">>

\* C29: a getter of the DevicesModel that finds its cache non-empty returns
\* the cached list without querying the backend; one that finds it empty
\* queries the backend and, when the backend answers, stores and returns the
\* answer; and once load() or refresh() has returned Ok, a later get_mounts
\* returns the mount list that load stored.
C29_DeviceCaches ==
    \A g \in Getters :
        dm.get[g].pc = "done" =>
            /\ dm.get[g].seen # EmptyList =>
                    ~dm.get[g].queried /\ dm.get[g].res = dm.get[g].seen
            /\ dm.get[g].seen = EmptyList =>
                    /\ dm.get[g].queried
                    /\ dm.get[g].fetched =>
                            dm.get[g].stored /\ dm.get[g].res = dm.get[g].got
            /\ dm.get[g].expect # EmptyList => dm.get[g].res = dm.get[g].expect


\* C30: under every interleaving of concurrent ensure_connected calls on one
\* UDisks2Backend, at most one connection is ever stored in the backend, the
\* stored connection is never replaced once set, and every call that returns
\* Ok returns the stored connection.
C30_ConnectOnce ==
    /\ Cardinality(uc.hist) <= 1
    /\ uc.hist # {} => uc.stored \in uc.hist
    /\ \A c \in Connectors :
          uc.call[c].pc = "ok" =>
              uc.call[c].ret # NoConnection /\ uc.call[c].ret = uc.stored

\* Two calls raced: both opened a connection, one stored its own, the other
\* found the slot taken and returned the stored one; both have returned Ok.
C30_Witness ==
    \E c, d \in Connectors :
        /\ c # d
        /\ uc.call[c].pc = "ok" /\ uc.call[d].pc = "ok"
        /\ uc.call[c].conn # NoConnection /\ uc.call[d].conn # NoConnection
        /\ uc.call[c].ret = uc.call[c].conn
        /\ uc.call[d].ret # uc.call[d].conn


\* C31: has_valid_thumbnail(uri, size, source_mtime) is true exactly when the
\* thumbnail file exists and its mtime is at or after source_mtime; a
\* just-generated thumbnail is valid; and once the source's mtime is later
\* than the thumbnail's, get_thumbnail_path returns None.
C31_ThumbnailValidity ==
    LET z == th.last.size IN
    /\ th.last.op = "has_valid_thumbnail" =>
          th.last.valid = (th.thumb[z].exists
                           /\ th.thumb[z].mtime >= th.last.arg * TicksPerSec)
    /\ th.last.op = "generate_thumbnail" /\ th.last.ok =>
          HasValidThumbnail(th.thumb[z], AsSecs(th.src.mtime))
    /\ (/\ th.last.op = "get_thumbnail_path" /\ th.last.ok
        /\ th.thumb[z].exists /\ th.src.mtime > th.thumb[z].mtime)
          => ~th.last.path

\* C32: every generation attempt made through the service broadcasts exactly
\* one event, ThumbnailReady when the call returns Ok and ThumbnailFailed
\* when it returns an error; a cache hit broadcasts nothing.
C32_OneEventPerAttempt ==
    /\ th.last.attempt =>
          /\ Len(th.last.sent) = 1
          /\ th.last.sent[1].kind = IF th.last.ok THEN "ThumbnailReady" ELSE "ThumbnailFailed"
    /\ ~th.last.attempt => th.last.sent = <<>>

\* The polling tasks that are running and have not been aborted.
C33_Running == {t \in Tasks : vm.tasks[t].pc \in {"sleep", "diff"} /\ ~vm.tasks[t].aborted}

\* C33: under every interleaving of start() and stop() calls a VolumeMonitor
\* has at most one polling task, and once stop() has returned no task spawned
\* by an earlier start() is still running.
C33_AtMostOnePollingTask ==
    /\ Cardinality(C33_Running) <= 1
    /\ vm.stopped => C33_Running = {}

\* C34: a poll cycle that fetched a snapshot leaves the key set of the stored
\* uuid-to-volume map equal to the uuids of that snapshot, and a cycle whose
\* snapshot is the one the cycle before it fetched broadcasts nothing: a
\* volume that disappeared is reported by one VolumeRemoved only.
C34_RemovedOnce ==
    [][\A t \in Tasks :
          (vm.tasks[t].pc = "diff" /\ vm'.tasks[t].pc # "diff") =>
              /\ vm'.stored.volumes = vm.tasks[t].snap
              /\ (vm.cyc.n > 0 /\ vm.cyc.world.volumes = vm.tasks[t].snap)
                    => vm'.nsent = vm.nsent]_vars

\* C35: files() never holds two entries with the same standard::name, after
\* any number of load() calls on the model and any Created, Deleted and
\* Changed events.
C35_NoDuplicateNames ==
    \A i, j \in 1..Len(files) : files[i].name = files[j].name => i = j


\* C36: once the DirectoryModel and all its subscribers have been dropped,
\* every task a load() spawned eventually exits and its filesystem watch is
\* released.
C36_TaskTerminates ==
    \A t \in LifeTasks :
        (~mt.model /\ mt.subs = 0 /\ mt.tasks[t].pc # "none")
            ~> (mt.tasks[t].pc = "exited" /\ ~mt.tasks[t].watcher)

\* C37: copy never modifies its source: when copy returns, with Ok or with
\* an error, for any destination and flags (the destination may name the
\* source's own path, with OVERWRITE), the source holds the content it had
\* before the call.
C37_CopyKeepsSource ==
    (cp.pc = "done" /\ cp.inp # "") =>
        fs[cp.inp].kind # "none" /\ fs[cp.inp].data = cp.src0


\* C38: move_to without OVERWRITE never replaces an existing destination: if
\* the destination exists when the rename takes effect, also when another
\* task created it after move_to's existence check, move_to fails with
\* Exists and the destination is left as it was.
C38_MoveNeverReplaces ==
    [][(/\ mv.pc = "rename" /\ mv'.pc = "done"
        /\ ~mv.over /\ mv.src # mv.dst
        /\ RenameError(fs, mv.src, mv.dst, mv.mounted) = "Ok"
        /\ ExistsOp(fs, mv.dst, NoToken).val)
          => (mv'.res = "Exists" /\ fs'[mv.dst] = fs[mv.dst])]_vars


\* C39: trash is all-or-nothing for the source: when trash(u) returns an
\* error, u is at its original path as it was before the call, and
\* Trash/files has gained no entry that lacks its Trash/info file.
C39_TrashAllOrNothing ==
    (tr.pc = "done" /\ tr.res # "Ok" /\ tr.before # <<>>) =>
        /\ fs[tr.path] = tr.at[tr.path]
        /\ \A n \in TrashNames :
              (trash.files[n] # tr.before[n] /\ trash.files[n].node.kind # "none")
                  => trash.info[n].present

====
